---- MODULE Spec2Model ----
(***************************************************************************)
(* A model of govte: the VTE byte-stream parser (Parser), its parameter    *)
(* store (Params) and the Processor that turns the parser's Performer      *)
(* calls into Handler calls, with its synchronized-update gate.            *)
(*                                                                         *)
(* Bytes are the integers 0..255, runes are code points, byte strings are  *)
(* sequences of bytes.  A Performer or Handler call is a record whose op   *)
(* field names the method; a trace is a sequence of such records.          *)
(***************************************************************************)
EXTENDS Integers, Sequences, FiniteSets, TLC

\* ------------------------------------------------------------------------
\* Program constants
\* ------------------------------------------------------------------------
MaxParams == 32
MaxIntermediates == 2
MaxOSCRaw == 1024
MaxOSCParams == 16
ParamCap == 9999
Uint16Mod == 65536
RuneError == 65533
UTFMax == 4

ESC == 27
BEL == 7
CAN == 24
SUB == 26
DEL == 127
BSL == 92

\* ------------------------------------------------------------------------
\* Small helpers
\* ------------------------------------------------------------------------
Min(a, b) == IF a < b THEN a ELSE b

Tail0(s, i) == SubSeq(s, i + 1, Len(s))

Take(s, n) == SubSeq(s, 1, n)

Last(s) == s[Len(s)]

RECURSIVE Concat(_)
Concat(ss) == IF ss = <<>> THEN <<>> ELSE Head(ss) \o Concat(Tail(ss))

Rep(b, n) == [k \in 1..n |-> b]

\* ------------------------------------------------------------------------
\* unicode/utf8 as the parser uses it
\* ------------------------------------------------------------------------
IsCont(b) == b >= 128 /\ b <= 191

\* Number of bytes the lead byte announces; 1 for a byte that starts no
\* encoding (continuation bytes, C0, C1, F5..FF).
LeadSize(b) ==
  IF b < 128 THEN 1
  ELSE IF b >= 194 /\ b <= 223 THEN 2
  ELSE IF b >= 224 /\ b <= 239 THEN 3
  ELSE IF b >= 240 /\ b <= 244 THEN 4
  ELSE 1

\* Accepted range of the second byte, by lead byte.
SecondLo(b) == IF b = 224 THEN 160 ELSE IF b = 240 THEN 144 ELSE 128

SecondHi(b) == IF b = 237 THEN 159 ELSE IF b = 244 THEN 143 ELSE 191

SecondOk(b0, b1) == b1 >= SecondLo(b0) /\ b1 <= SecondHi(b0)

\* utf8.DecodeRune: <<rune, size>>.
DecodeRune(bs) ==
  IF Len(bs) = 0 THEN <<RuneError, 0>>
  ELSE LET b0 == bs[1]
           sz == LeadSize(b0)
       IN IF b0 < 128 THEN <<b0, 1>>
          ELSE IF sz = 1 \/ Len(bs) < sz THEN <<RuneError, 1>>
          ELSE IF ~SecondOk(b0, bs[2]) THEN <<RuneError, 1>>
          ELSE IF sz = 2 THEN <<(b0 % 32) * 64 + (bs[2] % 64), 2>>
          ELSE IF ~IsCont(bs[3]) THEN <<RuneError, 1>>
          ELSE IF sz = 3
            THEN <<(b0 % 16) * 4096 + (bs[2] % 64) * 64 + (bs[3] % 64), 3>>
          ELSE IF ~IsCont(bs[4]) THEN <<RuneError, 1>>
          ELSE <<(b0 % 8) * 262144 + (bs[2] % 64) * 4096
                   + (bs[3] % 64) * 64 + (bs[4] % 64), 4>>

\* utf8.FullRune: the bytes begin with a full encoding; an invalid encoding
\* counts as full, since it decodes to a width-1 error rune.
FullRune(bs) ==
  IF Len(bs) = 0 THEN FALSE
  ELSE LET b0 == bs[1]
           n == Len(bs)
       IN IF n >= LeadSize(b0) THEN TRUE
          ELSE IF n > 1 /\ ~SecondOk(b0, bs[2]) THEN TRUE
          ELSE IF n > 2 /\ ~IsCont(bs[3]) THEN TRUE
          ELSE FALSE

\* ------------------------------------------------------------------------
\* Params: the parameter store.  The two arrays are kept as sequences of
\* the len slots in use (slots past len are never written).
\* ------------------------------------------------------------------------
NewParams == [params |-> <<>>, subparams |-> <<>>, currentSubparams |-> 0]

ParamsLen(ps) == Len(ps.params)

IsFull(ps) == ParamsLen(ps) >= MaxParams

Clear(ps) == NewParams

Push(ps, value) ==
  IF IsFull(ps) THEN ps
  ELSE [params |-> Append(ps.params, value),
        subparams |-> Append(ps.subparams, 1),
        currentSubparams |-> 0]

\* Index (1-based) of the last slot whose count is non-zero, 0 if none.
GroupStart(ps) ==
  LET S == {k \in 1..ParamsLen(ps) : ps.subparams[k] # 0}
  IN IF S = {} THEN 0 ELSE CHOOSE k \in S : \A j \in S : j <= k

\* An Extend that leaves the count of the group as it was.
ExtendNoCount(ps, value) ==
  IF IsFull(ps) THEN ps
  ELSE IF ParamsLen(ps) = 0 THEN Push(ps, value)
  ELSE LET g == GroupStart(ps)
       IN IF g = 0 THEN Push(ps, value)
          ELSE [params |-> Append(ps.params, value),
                subparams |-> Append(ps.subparams, 0),
                currentSubparams |-> ps.currentSubparams + 1]

Extend(ps, value) ==
  IF IsFull(ps) THEN ps
  ELSE IF ParamsLen(ps) = 0 THEN Push(ps, value)
  ELSE LET g == GroupStart(ps)
       IN IF g = 0 THEN Push(ps, value)
          ELSE [params |-> Append(ps.params, value),
                subparams |-> Append([ps.subparams EXCEPT ![g] = @ + 1], 0),
                currentSubparams |-> ps.currentSubparams + 1]

RECURSIVE IterFrom(_, _)
IterFrom(ps, i) ==
  IF i > ParamsLen(ps) THEN <<>>
  ELSE LET count == ps.subparams[i]
       IN IF count = 0 THEN IterFrom(ps, i + 1)
          ELSE <<SubSeq(ps.params, i, Min(i + count - 1, ParamsLen(ps)))>>
                 \o IterFrom(ps, i + count)

\* An iterator that yields every slot as a group of its own.
IterUngrouped(ps) == [i \in 1..ParamsLen(ps) |-> <<ps.params[i]>>]

\* Params.Iter: the groups, in order.
Iter(ps) == IterFrom(ps, 1)

\* ------------------------------------------------------------------------
\* Parser.  A parser value is a record of the Parser struct's fields (the
\* partialUTF8 array is kept as its partialUTF8Len live bytes) together
\* with out, the Performer calls made so far, in call order.
\* ------------------------------------------------------------------------
NewParser ==
  [state |-> "Ground", intermediates |-> <<>>, params |-> NewParams,
   currentParam |-> 0, hasCurrentParam |-> FALSE, inSubparam |-> FALSE,
   oscRaw |-> <<>>, oscParams |-> <<>>, oscNumParams |-> 0,
   ignoring |-> FALSE, pendingESC |-> FALSE, partialUTF8 |-> <<>>,
   out |-> <<>>]

Emit(m, call) == [m EXCEPT !.out = Append(@, call)]

Goto(m, st) == [m EXCEPT !.state = st]

\* Performer calls.  Params are recorded as what Iter yields at call time.
PrintCall(c) == [op |-> "Print", c |-> c]

ExecuteCall(b) == [op |-> "Execute", b |-> b]

PutCall(b) == [op |-> "Put", b |-> b]

UnhookCall == [op |-> "Unhook"]

HookCall(m, b) ==
  [op |-> "Hook", params |-> Iter(m.params), intermediates |-> m.intermediates,
   ignore |-> m.ignoring, action |-> b]

CsiCall(m, b) ==
  [op |-> "CsiDispatch", params |-> Iter(m.params),
   intermediates |-> m.intermediates, ignore |-> m.ignoring, action |-> b]

EscCall(m, b) ==
  [op |-> "EscDispatch", intermediates |-> m.intermediates,
   ignore |-> m.ignoring, b |-> b]

OscCall(params, bellTerminated) ==
  [op |-> "OscDispatch", params |-> params, bellTerminated |-> bellTerminated]

resetParams(m) ==
  [m EXCEPT !.params = Clear(@), !.intermediates = <<>>, !.ignoring = FALSE,
            !.oscRaw = <<>>, !.oscParams = <<>>, !.oscNumParams = 0,
            !.currentParam = 0, !.hasCurrentParam = FALSE,
            !.inSubparam = FALSE]

\* A collector without the test against MaxIntermediates.
collectIntermediateUnbounded(m, b) == [m EXCEPT !.intermediates = Append(@, b)]

collectIntermediate(m, b) ==
  IF Len(m.intermediates) < MaxIntermediates
  THEN [m EXCEPT !.intermediates = Append(@, b)]
  ELSE [m EXCEPT !.ignoring = TRUE]

\* currentParam is a uint16: the product wraps before the cap is applied.
paramDigit(m, b) ==
  LET digit == b - 48
  IN IF ~m.hasCurrentParam
     THEN [m EXCEPT !.currentParam = digit, !.hasCurrentParam = TRUE]
     ELSE LET v == (m.currentParam * 10 + digit) % Uint16Mod
          IN [m EXCEPT !.currentParam = IF v > ParamCap THEN ParamCap ELSE v]

\* "if full then ignoring = true else Push/Extend", as written at each site.
PushOrIgnore(m, value) ==
  IF IsFull(m.params) THEN [m EXCEPT !.ignoring = TRUE]
  ELSE [m EXCEPT !.params = Push(@, value)]

ExtendOrIgnore(m, value) ==
  IF IsFull(m.params) THEN [m EXCEPT !.ignoring = TRUE]
  ELSE [m EXCEPT !.params = Extend(@, value)]

\* A separator that pushes nothing for an empty field.
paramSeparatorSkipEmpty(m) ==
  LET m1 == IF m.hasCurrentParam
            THEN IF m.inSubparam THEN ExtendOrIgnore(m, m.currentParam)
                 ELSE PushOrIgnore(m, m.currentParam)
            ELSE m
  IN [m1 EXCEPT !.currentParam = 0, !.hasCurrentParam = FALSE,
                !.inSubparam = FALSE]

paramSeparator(m) ==
  LET m1 == IF m.hasCurrentParam
            THEN IF m.inSubparam THEN ExtendOrIgnore(m, m.currentParam)
                 ELSE PushOrIgnore(m, m.currentParam)
            ELSE IF ~m.inSubparam THEN PushOrIgnore(m, 0)
            ELSE m
  IN [m1 EXCEPT !.currentParam = 0, !.hasCurrentParam = FALSE,
                !.inSubparam = FALSE]

\* A ':' that stores nothing for an empty position.
paramSubparamSkipEmpty(m) ==
  IF m.hasCurrentParam
  THEN LET m1 == IF ~m.inSubparam
                 THEN IF IsFull(m.params) THEN [m EXCEPT !.ignoring = TRUE]
                      ELSE [m EXCEPT !.params = Push(@, m.currentParam),
                                     !.inSubparam = TRUE]
                 ELSE ExtendOrIgnore(m, m.currentParam)
       IN [m1 EXCEPT !.currentParam = 0, !.hasCurrentParam = FALSE]
  ELSE m

paramSubparam(m) ==
  IF m.hasCurrentParam
  THEN LET m1 == IF ~m.inSubparam
                 THEN IF IsFull(m.params) THEN [m EXCEPT !.ignoring = TRUE]
                      ELSE [m EXCEPT !.params = Push(@, m.currentParam),
                                     !.inSubparam = TRUE]
                 ELSE ExtendOrIgnore(m, m.currentParam)
       IN [m1 EXCEPT !.currentParam = 0, !.hasCurrentParam = FALSE]
  ELSE IF ~m.inSubparam
       THEN IF IsFull(m.params) THEN [m EXCEPT !.ignoring = TRUE]
            ELSE [m EXCEPT !.params = Push(@, 0), !.inSubparam = TRUE]
       ELSE ExtendOrIgnore(m, 0)

\* The pending parameter is finalized with a bare Push/Extend.
csiFinalize(m) ==
  IF m.hasCurrentParam
  THEN IF m.inSubparam THEN [m EXCEPT !.params = Extend(@, m.currentParam)]
       ELSE [m EXCEPT !.params = Push(@, m.currentParam)]
  ELSE m

csiDispatch(m, action) ==
  LET m1 == csiFinalize(m)
  IN resetParams(Emit(m1, CsiCall(m1, action)))

\* "Finalize current parameter before Hook" of the three DCS header states.
dcsFinalize(m) ==
  IF m.hasCurrentParam
  THEN IF m.inSubparam THEN ExtendOrIgnore(m, m.currentParam)
       ELSE PushOrIgnore(m, m.currentParam)
  ELSE m

dcsHook(m, b) ==
  LET m1 == dcsFinalize(m)
  IN Goto(Emit(m1, HookCall(m1, b)), "DCSPassthrough")

oscPut(m, b) ==
  IF Len(m.oscRaw) < MaxOSCRaw
  THEN IF b = 59 /\ m.oscNumParams < MaxOSCParams
       THEN [m EXCEPT !.oscParams = Append(@, Len(m.oscRaw)),
                      !.oscNumParams = @ + 1]
       ELSE [m EXCEPT !.oscRaw = Append(@, b)]
  ELSE m

\* The loop of oscDispatch over the recorded boundaries: <<params, start>>.
RECURSIVE oscSplit(_, _, _, _)
oscSplit(raw, bounds, k, acc) ==
  IF k > Len(bounds) THEN acc
  ELSE LET end == bounds[k]
           start == acc[2]
       IN IF end > start /\ end <= Len(raw)
          THEN oscSplit(raw, bounds, k + 1,
                        <<Append(acc[1], SubSeq(raw, start + 1, end)), end>>)
          ELSE oscSplit(raw, bounds, k + 1, acc)

oscFields(raw, bounds) ==
  LET acc == oscSplit(raw, bounds, 1, <<<<>>, 0>>)
  IN IF acc[2] < Len(raw) THEN Append(acc[1], Tail0(raw, acc[2])) ELSE acc[1]

oscDispatch(m, bellTerminated) ==
  resetParams(Emit(m, OscCall(oscFields(m.oscRaw, m.oscParams), bellTerminated)))

\* ------------------------------------------------------------------------
\* Parser: one handler per state, each taking the byte at the cursor
\* ------------------------------------------------------------------------
advanceEscape(m, b) ==
  IF b < 32 THEN Emit(m, ExecuteCall(b))
  ELSE IF b >= 32 /\ b <= 47 THEN Goto(collectIntermediate(m, b), "EscapeIntermediate")
  ELSE IF b >= 48 /\ b <= 79 THEN Goto(Emit(m, EscCall(m, b)), "Ground")
  ELSE IF b = 91 THEN Goto(m, "CSIEntry")
  ELSE IF b = 93 THEN Goto(m, "OSCString")
  ELSE IF b = 80 THEN Goto(m, "DCSEntry")
  ELSE IF b = 88 \/ b = 94 \/ b = 95 THEN Goto(m, "SOSPMApcString")
  ELSE IF (b >= 81 /\ b <= 87) \/ (b >= 89 /\ b <= 90) \/ b = 92
          \/ (b >= 96 /\ b <= 126)
    THEN Goto(Emit(m, EscCall(m, b)), "Ground")
  ELSE m

advanceEscapeIntermediate(m, b) ==
  IF b < 32 THEN Emit(m, ExecuteCall(b))
  ELSE IF b >= 32 /\ b <= 47 THEN collectIntermediate(m, b)
  ELSE IF b >= 48 /\ b <= 126 THEN Goto(Emit(m, EscCall(m, b)), "Ground")
  ELSE m

advanceCSIEntry(m, b) ==
  IF b < 32 THEN Emit(m, ExecuteCall(b))
  ELSE IF b >= 32 /\ b <= 47 THEN Goto(collectIntermediate(m, b), "CSIIntermediate")
  ELSE IF b >= 48 /\ b <= 57 THEN Goto(paramDigit(m, b), "CSIParam")
  ELSE IF b = 58 THEN Goto(paramSubparam(m), "CSIParam")
  ELSE IF b = 59 THEN Goto(paramSeparator(m), "CSIParam")
  ELSE IF b >= 60 /\ b <= 63 THEN Goto(collectIntermediate(m, b), "CSIParam")
  ELSE IF b >= 64 /\ b <= 126 THEN Goto(csiDispatch(m, b), "Ground")
  ELSE m

advanceCSIParam(m, b) ==
  IF b < 32 THEN Emit(m, ExecuteCall(b))
  ELSE IF b >= 32 /\ b <= 47 THEN Goto(collectIntermediate(m, b), "CSIIntermediate")
  ELSE IF b >= 48 /\ b <= 57 THEN paramDigit(m, b)
  ELSE IF b = 58 THEN paramSubparam(m)
  ELSE IF b = 59 THEN paramSeparator(m)
  ELSE IF b >= 60 /\ b <= 63 THEN Goto(m, "CSIIgnore")
  ELSE IF b >= 64 /\ b <= 126 THEN Goto(csiDispatch(m, b), "Ground")
  ELSE m

advanceCSIIntermediate(m, b) ==
  IF b < 32 THEN Emit(m, ExecuteCall(b))
  ELSE IF b >= 32 /\ b <= 47 THEN collectIntermediate(m, b)
  ELSE IF b >= 48 /\ b <= 63 THEN Goto(m, "CSIIgnore")
  ELSE IF b >= 64 /\ b <= 126 THEN Goto(csiDispatch(m, b), "Ground")
  ELSE m

\* An ignore state that dispatches at the final byte.
advanceCSIIgnoreDispatch(m, b) ==
  IF b < 32 THEN Emit(m, ExecuteCall(b))
  ELSE IF b >= 32 /\ b <= 63 THEN m
  ELSE IF b >= 64 /\ b <= 126 THEN Goto(csiDispatch(m, b), "Ground")
  ELSE m

advanceCSIIgnore(m, b) ==
  IF b < 32 THEN Emit(m, ExecuteCall(b))
  ELSE IF b >= 32 /\ b <= 63 THEN m
  ELSE IF b >= 64 /\ b <= 126 THEN Goto(m, "Ground")
  ELSE m

\* No case of the switch takes DEL (0x7F): it is dropped.
advanceOSCString(m, b) ==
  IF b = BEL THEN Goto(oscDispatch(m, TRUE), "Ground")
  ELSE IF b = ESC THEN oscPut(m, b)
  ELSE IF b = BSL /\ Len(m.oscRaw) > 0 /\ Last(m.oscRaw) = ESC
    THEN Goto(oscDispatch([m EXCEPT !.oscRaw = Take(@, Len(@) - 1)], FALSE),
              "Ground")
  ELSE IF b >= 32 /\ b < 127 THEN oscPut(m, b)
  ELSE IF b < 32 \/ b >= 128 THEN oscPut(m, b)
  ELSE m

advanceDCSEntry(m, b) ==
  IF b < 32 THEN m
  ELSE IF b >= 32 /\ b <= 47 THEN Goto(collectIntermediate(m, b), "DCSIntermediate")
  ELSE IF b >= 48 /\ b <= 57 THEN Goto(paramDigit(m, b), "DCSParam")
  ELSE IF b = 58 THEN Goto(paramSubparam(m), "DCSParam")
  ELSE IF b = 59 THEN Goto(paramSeparator(m), "DCSParam")
  ELSE IF b >= 60 /\ b <= 63 THEN Goto(collectIntermediate(m, b), "DCSParam")
  ELSE IF b >= 64 /\ b <= 126 THEN dcsHook(m, b)
  ELSE m

advanceDCSParam(m, b) ==
  IF b < 32 THEN m
  ELSE IF b >= 32 /\ b <= 47 THEN Goto(collectIntermediate(m, b), "DCSIntermediate")
  ELSE IF b >= 48 /\ b <= 57 THEN paramDigit(m, b)
  ELSE IF b = 58 THEN paramSubparam(m)
  ELSE IF b = 59 THEN paramSeparator(m)
  ELSE IF b >= 60 /\ b <= 63 THEN Goto(m, "DCSIgnore")
  ELSE IF b >= 64 /\ b <= 126 THEN dcsHook(m, b)
  ELSE m

advanceDCSIntermediate(m, b) ==
  IF b < 32 THEN m
  ELSE IF b >= 32 /\ b <= 47 THEN collectIntermediate(m, b)
  ELSE IF b >= 48 /\ b <= 63 THEN Goto(m, "DCSIgnore")
  ELSE IF b >= 64 /\ b <= 126 THEN dcsHook(m, b)
  ELSE m

\* Put of the byte, preceded by the Put of a deferred ESC.
dcsPut(m, b) ==
  IF m.pendingESC
  THEN Emit(Emit([m EXCEPT !.pendingESC = FALSE], PutCall(ESC)), PutCall(b))
  ELSE Emit(m, PutCall(b))

\* A cancellation that executes the byte before it closes the hook.
dcsCancelExecuteFirst(m, b) ==
  Goto(Emit(Emit(m, ExecuteCall(b)), UnhookCall), "Ground")

\* CAN or SUB: the hook is closed, then the byte is executed.
dcsCancel(m, b) ==
  Goto(Emit(Emit(m, UnhookCall), ExecuteCall(b)), "Ground")

advanceDCSPassthrough(m, b) ==
  IF b = ESC THEN [m EXCEPT !.pendingESC = TRUE]
  ELSE IF b = BSL /\ m.pendingESC
    THEN Goto(Emit([m EXCEPT !.pendingESC = FALSE], UnhookCall), "Ground")
  ELSE IF b = BEL THEN Goto(Emit(m, UnhookCall), "Ground")
  ELSE IF (b >= 0 /\ b <= 6) \/ (b >= 8 /\ b <= 23) \/ b = 25
          \/ (b >= 28 /\ b <= 126)
    THEN dcsPut(m, b)
  ELSE IF b = CAN \/ b = SUB THEN dcsCancel(m, b)
  ELSE dcsPut(m, b)

advanceDCSIgnore(m, b) ==
  IF b = ESC THEN m
  ELSE IF b = CAN \/ b = SUB THEN Goto(m, "Ground")
  ELSE m

advanceSOSPMApcString(m, b) ==
  IF b = ESC THEN m
  ELSE IF b = BSL THEN Goto(m, "Ground")
  ELSE m

\* ------------------------------------------------------------------------
\* Parser: Ground and UTF-8.  These return [m, n]: the parser and the
\* number of bytes consumed.
\* ------------------------------------------------------------------------
\* A decoder that keeps no partial code point: an incomplete encoding at
\* the end of the input is printed as U+FFFD.
handleUTF8NoPartial(m, bytes) ==
  IF Len(bytes) = 0 THEN [m |-> m, n |-> 0]
  ELSE LET d == DecodeRune(bytes)
       IN IF d[1] = RuneError
          THEN [m |-> Emit(m, PrintCall(RuneError)), n |-> 1]
          ELSE [m |-> Emit(m, PrintCall(d[1])), n |-> d[2]]

handleUTF8(m, bytes) ==
  IF Len(bytes) = 0 THEN [m |-> m, n |-> 0]
  ELSE LET d == DecodeRune(bytes)
       IN IF d[1] = RuneError
          THEN IF d[2] = 1 /\ ~FullRune(bytes)
               THEN [m |-> [m EXCEPT !.partialUTF8 = Take(bytes, Min(UTFMax, Len(bytes)))],
                     n |-> Len(bytes)]
               ELSE [m |-> Emit(m, PrintCall(RuneError)), n |-> 1]
          ELSE [m |-> Emit(m, PrintCall(d[1])), n |-> d[2]]

RECURSIVE groundLoop(_, _)
groundLoop(ls, bytes) ==
  IF ls.i >= Len(bytes) THEN [m |-> ls.m, n |-> Len(bytes)]
  ELSE LET m == ls.m
           i == ls.i
           b == bytes[i + 1]
       IN IF b = ESC THEN [m |-> resetParams(Goto(m, "Escape")), n |-> i + 1]
          ELSE IF b < 32
            THEN groundLoop([m |-> Emit(m, ExecuteCall(b)), i |-> i + 1], bytes)
          ELSE IF b >= 32 /\ b < 127
            THEN groundLoop([m |-> Emit(m, PrintCall(b)), i |-> i + 1], bytes)
          ELSE IF b >= 128
            THEN IF b >= 192
                 THEN LET r == handleUTF8(m, Tail0(bytes, i))
                      IN [m |-> r.m, n |-> i + r.n]
                 ELSE IF b = 144
                   THEN [m |-> resetParams(Goto(m, "DCSEntry")), n |-> i + 1]
                 ELSE IF b = 155
                   THEN [m |-> resetParams(Goto(m, "CSIEntry")), n |-> i + 1]
                 ELSE IF b = 157
                   THEN [m |-> resetParams(Goto(m, "OSCString")), n |-> i + 1]
                 ELSE groundLoop([m |-> Emit(m, PrintCall(RuneError)),
                                  i |-> i + 1], bytes)
          ELSE groundLoop([m |-> m, i |-> i + 1], bytes)

advanceGround(m, bytes) == groundLoop([m |-> m, i |-> 0], bytes)

\* A variant that consumes the control byte that interrupts the partial.
advancePartialUTF8Consume(m, bytes) ==
  IF Len(bytes) = 0 THEN [m |-> m, n |-> 0]
  ELSE IF bytes[1] < 32 \/ bytes[1] = DEL \/ bytes[1] = ESC
    THEN [m |-> Emit([m EXCEPT !.partialUTF8 = <<>>], PrintCall(RuneError)),
          n |-> 1]
  ELSE LET partialUTF8Len == Len(m.partialUTF8)
           needed == UTFMax - partialUTF8Len
           n == Min(needed, Len(bytes))
           buf == m.partialUTF8 \o Take(bytes, n)
           d == DecodeRune(buf)
       IN IF d[1] # RuneError
          THEN [m |-> Emit([m EXCEPT !.partialUTF8 = <<>>], PrintCall(d[1])),
                n |-> d[2] - partialUTF8Len]
          ELSE IF d[2] = 1 /\ ~FullRune(buf)
            THEN [m |-> [m EXCEPT !.partialUTF8 = buf], n |-> n]
          ELSE [m |-> Emit([m EXCEPT !.partialUTF8 = <<>>], PrintCall(RuneError)),
                n |-> n]

advancePartialUTF8(m, bytes) ==
  IF Len(bytes) = 0 THEN [m |-> m, n |-> 0]
  ELSE IF bytes[1] < 32 \/ bytes[1] = DEL \/ bytes[1] = ESC
    THEN [m |-> Emit([m EXCEPT !.partialUTF8 = <<>>], PrintCall(RuneError)),
          n |-> 0]
  ELSE LET partialUTF8Len == Len(m.partialUTF8)
           needed == UTFMax - partialUTF8Len
           n == Min(needed, Len(bytes))
           buf == m.partialUTF8 \o Take(bytes, n)
           d == DecodeRune(buf)
       IN IF d[1] # RuneError
          THEN [m |-> Emit([m EXCEPT !.partialUTF8 = <<>>], PrintCall(d[1])),
                n |-> d[2] - partialUTF8Len]
          ELSE IF d[2] = 1 /\ ~FullRune(buf)
            THEN [m |-> [m EXCEPT !.partialUTF8 = buf], n |-> n]
          ELSE [m |-> Emit([m EXCEPT !.partialUTF8 = <<>>], PrintCall(RuneError)),
                n |-> n]

\* ------------------------------------------------------------------------
\* Parser.Advance.  The loop state is [m, i]: the parser and the cursor.
\* ------------------------------------------------------------------------
advanceByte(m, b) ==
  CASE m.state = "Escape" -> advanceEscape(m, b)
    [] m.state = "EscapeIntermediate" -> advanceEscapeIntermediate(m, b)
    [] m.state = "CSIEntry" -> advanceCSIEntry(m, b)
    [] m.state = "CSIParam" -> advanceCSIParam(m, b)
    [] m.state = "CSIIntermediate" -> advanceCSIIntermediate(m, b)
    [] m.state = "CSIIgnore" -> advanceCSIIgnore(m, b)
    [] m.state = "OSCString" -> advanceOSCString(m, b)
    [] m.state = "DCSEntry" -> advanceDCSEntry(m, b)
    [] m.state = "DCSParam" -> advanceDCSParam(m, b)
    [] m.state = "DCSIntermediate" -> advanceDCSIntermediate(m, b)
    [] m.state = "DCSPassthrough" -> advanceDCSPassthrough(m, b)
    [] m.state = "DCSIgnore" -> advanceDCSIgnore(m, b)
    [] m.state = "SOSPMApcString" -> advanceSOSPMApcString(m, b)
    [] OTHER -> m

\* A variant that hands an ESC met outside Ground to the state's handler
\* and leaves the cursor on it.
loopBodyReprocess(ls, bytes) ==
  IF ls.i >= Len(bytes) THEN ls
  ELSE IF ls.m.state = "Ground"
    THEN LET r == advanceGround(ls.m, Tail0(bytes, ls.i))
         IN [m |-> r.m, i |-> ls.i + r.n]
  ELSE [m |-> advanceByte(ls.m, bytes[ls.i + 1]),
        i |-> IF bytes[ls.i + 1] = ESC THEN ls.i ELSE ls.i + 1]

\* One iteration of "for i < len(bytes)"; nothing once the loop has ended.
loopBody(ls, bytes) ==
  IF ls.i >= Len(bytes) THEN ls
  ELSE IF ls.m.state = "Ground"
    THEN LET r == advanceGround(ls.m, Tail0(bytes, ls.i))
         IN [m |-> r.m, i |-> ls.i + r.n]
  ELSE [m |-> advanceByte(ls.m, bytes[ls.i + 1]), i |-> ls.i + 1]

\* n iterations of the loop, evaluated by halves (the first half is
\* evaluated, by reading its cursor, before the second half starts).
RECURSIVE iterate(_, _, _)
iterate(ls, bytes, n) ==
  IF n = 0 THEN ls
  ELSE IF n = 1 THEN loopBody(ls, bytes)
  ELSE LET half == iterate(ls, bytes, n \div 2)
       IN IF half.i >= Len(bytes) THEN half
          ELSE iterate(half, bytes, n - n \div 2)

\* The loop state when Advance returns, given Len(bytes) iterations at most.
advanceRun(m, bytes) ==
  LET start == IF Len(m.partialUTF8) > 0
               THEN LET r == advancePartialUTF8(m, bytes)
                    IN [m |-> r.m, i |-> r.n]
               ELSE [m |-> m, i |-> 0]
  IN IF Len(m.partialUTF8) > 0 /\ start.i >= Len(bytes) THEN start
     ELSE iterate(start, bytes, Len(bytes))

Advance(m, bytes) == advanceRun(m, bytes).m

\* ------------------------------------------------------------------------
\* Processor: the Performer that re-issues Handler calls.  pp is
\* [dcs, hand]: the DCSState and the Handler calls made so far.
\* ------------------------------------------------------------------------
NewDCSState == [active |-> FALSE, buffer |-> <<>>]

NewSyncState == [enabled |-> FALSE, buffer |-> <<>>, elapsed |-> FALSE]

Call(pp, c) == [pp EXCEPT !.hand = Append(@, c)]

H0(name) == [op |-> name]

HN(name, n) == [op |-> name, n |-> n]

NamedColor(c) == [Type |-> "Named", Named |-> c, Index |-> 0, Rgb |-> <<0, 0, 0>>]

IndexedColor(i) == [Type |-> "Indexed", Named |-> 0, Index |-> i, Rgb |-> <<0, 0, 0>>]

RgbColor(r, g, b) == [Type |-> "Rgb", Named |-> 0, Index |-> 0, Rgb |-> <<r, g, b>>]

\* The zero value of Color.
ZeroColor == NamedColor(0)

Foreground == 16
Background == 17

\* A conversion to the range 0..b that wraps.
minUint16Wrap(a, b) == a % (b + 1)

minUint16(a, b) == IF a < b THEN a ELSE b

\* A fetch that returns the stored value, zero included.
getParamStored(groups, groupIdx, paramIdx, defaultValue) ==
  IF groupIdx >= Len(groups) THEN defaultValue
  ELSE IF paramIdx >= Len(groups[groupIdx + 1]) THEN defaultValue
  ELSE groups[groupIdx + 1][paramIdx + 1]

getParam(groups, groupIdx, paramIdx, defaultValue) ==
  IF groupIdx >= Len(groups) THEN defaultValue
  ELSE LET group == groups[groupIdx + 1]
       IN IF paramIdx >= Len(group) THEN defaultValue
          ELSE LET value == group[paramIdx + 1]
               IN IF value = 0 /\ defaultValue # 0 THEN defaultValue ELSE value

performPrint(pp, c) == Call(pp, [op |-> "Input", c |-> c])

performExecute(pp, b) ==
  IF b = BEL THEN Call(pp, H0("Bell"))
  ELSE IF b = 8 THEN Call(pp, H0("Backspace"))
  ELSE IF b = 9 THEN Call(pp, H0("Tab"))
  ELSE IF b = 10 \/ b = 11 \/ b = 12 THEN Call(pp, H0("LineFeed"))
  ELSE IF b = 13 THEN Call(pp, H0("CarriageReturn"))
  ELSE IF b = 14 THEN Call(pp, [op |-> "SetActiveCharset", index |-> 1])
  ELSE IF b = 15 THEN Call(pp, [op |-> "SetActiveCharset", index |-> 0])
  ELSE pp

performHook(pp, c) ==
  Call([pp EXCEPT !.dcs = [active |-> TRUE, buffer |-> <<>>]],
       [op |-> "Hook", params |-> c.params, intermediates |-> c.intermediates,
        ignore |-> c.ignore, action |-> c.action])

performPut(pp, b) ==
  IF pp.dcs.active THEN [pp EXCEPT !.dcs.buffer = Append(@, b)] ELSE pp

performUnhook(pp) ==
  IF pp.dcs.active
  THEN LET p1 == IF Len(pp.dcs.buffer) > 0
                 THEN Call(pp, [op |-> "Put", data |-> pp.dcs.buffer])
                 ELSE pp
       IN Call([p1 EXCEPT !.dcs.active = FALSE], H0("Unhook"))
  ELSE pp

\* A small number as an int: four 16-bit limbs, the lowest first.
Int64(n) == <<n, 0, 0, 0>>

\* x*10 + d in an int: the result wraps at 2^64.
Int64MulAdd(x, d) ==
  LET c1 == x[1] * 10 + d
      c2 == x[2] * 10 + (c1 \div Uint16Mod)
      c3 == x[3] * 10 + (c2 \div Uint16Mod)
      c4 == x[4] * 10 + (c3 \div Uint16Mod)
  IN <<c1 % Uint16Mod, c2 % Uint16Mod, c3 % Uint16Mod, c4 % Uint16Mod>>

\* The OSC number: the digits of the first field, other bytes skipped.
oscDigit(bs, ls) ==
  IF bs[ls.i] >= 48 /\ bs[ls.i] <= 57
  THEN [oscNum |-> Int64MulAdd(ls.oscNum, bs[ls.i] - 48), i |-> ls.i + 1]
  ELSE [oscNum |-> ls.oscNum, i |-> ls.i + 1]

\* n iterations of "for _, b := range params[0]", evaluated by halves.
RECURSIVE oscDigits(_, _, _)
oscDigits(bs, ls, n) ==
  IF n = 0 THEN ls
  ELSE IF n = 1 THEN oscDigit(bs, ls)
  ELSE LET half == oscDigits(bs, ls, n \div 2)
       IN IF half.i > Len(bs) THEN half
          ELSE oscDigits(bs, half, n - n \div 2)

oscNumber(bs) == oscDigits(bs, [oscNum |-> Int64(0), i |-> 1], Len(bs)).oscNum

performOscDispatch(pp, c) ==
  IF Len(c.params) = 0 THEN pp
  ELSE LET oscNum == oscNumber(c.params[1])
       IN IF (oscNum = Int64(0) \/ oscNum = Int64(2)) /\ Len(c.params) > 1
          THEN Call(pp, [op |-> "SetTitle", title |-> c.params[2]])
          ELSE pp

processExtendedColor(pp, group, isForeground) ==
  IF Len(group) < 2 THEN pp
  ELSE LET color ==
             IF group[2] = 2 /\ Len(group) >= 5
             THEN RgbColor(minUint16(group[3], 255), minUint16(group[4], 255),
                           minUint16(group[5], 255))
             ELSE IF group[2] = 5 /\ Len(group) >= 3
             THEN IndexedColor(minUint16(group[3], 255))
             ELSE ZeroColor
       IN Call(pp, [op |-> IF isForeground THEN "SetForeground" ELSE "SetBackground",
                    color |-> color])

SetAttr(pp, a) == Call(pp, [op |-> "SetAttribute", attr |-> a])

SetFg(pp, color) == Call(pp, [op |-> "SetForeground", color |-> color])

SetBg(pp, color) == Call(pp, [op |-> "SetBackground", color |-> color])

sgrGroup(pp, group) ==
  IF Len(group) = 0 THEN pp
  ELSE LET g == group[1]
       IN CASE g = 0 -> Call(Call(pp, H0("ResetAttributes")), H0("ResetColors"))
            [] g = 1 -> SetAttr(pp, "Bold")
            [] g = 2 -> SetAttr(pp, "Dim")
            [] g = 3 -> SetAttr(pp, "Italic")
            [] g = 4 -> SetAttr(pp, "Underline")
            [] g = 5 -> SetAttr(pp, "Blinking")
            [] g = 7 -> SetAttr(pp, "Reverse")
            [] g = 8 -> SetAttr(pp, "Hidden")
            [] g = 9 -> SetAttr(pp, "Strikethrough")
            [] g = 21 -> SetAttr(pp, "DoubleUnderline")
            [] g >= 30 /\ g <= 37 -> SetFg(pp, NamedColor(g - 30))
            [] g = 38 -> IF Len(group) > 1
                         THEN processExtendedColor(pp, group, TRUE) ELSE pp
            [] g = 39 -> SetFg(pp, NamedColor(Foreground))
            [] g >= 40 /\ g <= 47 -> SetBg(pp, NamedColor(g - 40))
            [] g = 48 -> IF Len(group) > 1
                         THEN processExtendedColor(pp, group, FALSE) ELSE pp
            [] g = 49 -> SetBg(pp, NamedColor(Background))
            [] g >= 90 /\ g <= 97 -> SetFg(pp, NamedColor(g - 90 + 8))
            [] g >= 100 /\ g <= 107 -> SetBg(pp, NamedColor(g - 100 + 8))
            [] OTHER -> pp

RECURSIVE sgrLoop(_, _)
sgrLoop(ls, groups) ==
  IF ls.i > Len(groups) THEN ls.pp
  ELSE sgrLoop([pp |-> sgrGroup(ls.pp, groups[ls.i]), i |-> ls.i + 1], groups)

\* An SGR that resets, whatever its parameters.
processSGRReset(pp, groups) ==
  Call(Call(pp, H0("ResetAttributes")), H0("ResetColors"))

processSGR(pp, groups) ==
  IF Len(groups) = 0
  THEN Call(Call(pp, H0("ResetAttributes")), H0("ResetColors"))
  ELSE sgrLoop([pp |-> pp, i |-> 1], groups)

\* A loop that stops after the first group.
modeLoopFirstOnly(pp, groups, name, base) ==
  IF Len(groups) > 0 /\ Len(groups[1]) > 0
  THEN Call(pp, [op |-> name, mode |-> (base + groups[1][1]) % Uint16Mod])
  ELSE pp

modeLoop(pp, groups, name, base) ==
  LET RECURSIVE go(_)
      go(ls) ==
        IF ls.i > Len(groups) THEN ls.pp
        ELSE IF Len(groups[ls.i]) > 0
          THEN go([pp |-> Call(ls.pp, [op |-> name,
                                       mode |-> (base + groups[ls.i][1]) % Uint16Mod]),
                   i |-> ls.i + 1])
        ELSE go([pp |-> ls.pp, i |-> ls.i + 1])
  IN go([pp |-> pp, i |-> 1])

performCsiDispatch(pp, c) ==
  IF c.ignore THEN pp
  ELSE LET groups == c.params
           a == c.action
           private == Len(c.intermediates) > 0 /\ c.intermediates[1] = 63
           n1 == getParam(groups, 0, 0, 1)
       IN CASE a = 65 -> Call(pp, HN("MoveUp", n1))
            [] a = 66 -> Call(pp, HN("MoveDown", n1))
            [] a = 67 -> Call(pp, HN("MoveForward", n1))
            [] a = 68 -> Call(pp, HN("MoveBackward", n1))
            [] a = 69 -> Call(pp, HN("MoveDownAndCR", n1))
            [] a = 70 -> Call(pp, HN("MoveUpAndCR", n1))
            [] a = 71 -> Call(pp, HN("GotoCol", n1))
            [] a = 72 \/ a = 102 ->
                 Call(pp, [op |-> "Goto", row |-> n1,
                           col |-> getParam(groups, 1, 0, 1)])
            [] a = 74 ->
                 Call(pp, [op |-> "ClearScreen",
                           mode |-> getParam(groups, 0, 0, 0) % 256])
            [] a = 75 ->
                 Call(pp, [op |-> "ClearLine",
                           mode |-> getParam(groups, 0, 0, 0) % 256])
            [] a = 76 -> Call(pp, HN("InsertLines", n1))
            [] a = 77 -> Call(pp, HN("DeleteLines", n1))
            [] a = 80 -> Call(pp, HN("DeleteChars", n1))
            [] a = 83 -> Call(pp, HN("ScrollUp", n1))
            [] a = 84 -> Call(pp, HN("ScrollDown", n1))
            [] a = 88 -> Call(pp, HN("EraseChars", n1))
            [] a = 64 -> Call(pp, HN("InsertBlank", n1))
            [] a = 100 -> Call(pp, HN("GotoLine", n1))
            [] a = 109 -> processSGR(pp, groups)
            [] a = 114 ->
                 LET bottom == getParam(groups, 1, 0, 0)
                 IN Call(pp, [op |-> "SetScrollingRegion", top |-> n1,
                              bottom |-> IF bottom = 0 THEN 24 ELSE bottom])
            [] a = 115 -> Call(pp, H0("SaveCursorPosition"))
            [] a = 117 -> Call(pp, H0("RestoreCursorPosition"))
            [] a = 104 -> modeLoop(pp, groups, "SetMode", IF private THEN 512 ELSE 0)
            [] a = 108 -> modeLoop(pp, groups, "ResetMode", IF private THEN 512 ELSE 0)
            [] a = 110 -> Call(pp, HN("DeviceStatus", getParam(groups, 0, 0, 0)))
            [] a = 99 -> Call(pp, H0("IdentifyTerminal"))
            [] a = 103 ->
                 LET mode == getParam(groups, 0, 0, 0)
                 IN IF mode = 0 THEN Call(pp, [op |-> "ClearTabStop", mode |-> "Current"])
                    ELSE IF mode = 3 THEN Call(pp, [op |-> "ClearTabStop", mode |-> "All"])
                    ELSE pp
            [] a = 73 -> Call(pp, HN("TabForward", n1))
            [] a = 90 -> Call(pp, HN("TabBackward", n1))
            [] OTHER -> pp

configureCharset(pp, intermediates, charset) ==
  IF Len(intermediates) # 1 THEN pp
  ELSE LET x == intermediates[1]
       IN IF x \in {40, 41, 42, 43}
          THEN Call(pp, [op |-> "ConfigureCharset", index |-> x - 40,
                         charset |-> charset])
          ELSE pp

performEscDispatch(pp, c) ==
  IF c.ignore THEN pp
  ELSE CASE c.b = 55 -> Call(pp, H0("SaveCursorPosition"))
         [] c.b = 56 -> Call(pp, H0("RestoreCursorPosition"))
         [] c.b = 99 -> Call(pp, H0("Reset"))
         [] c.b = 68 -> Call(pp, HN("MoveDown", 1))
         [] c.b = 69 -> Call(pp, HN("MoveDownAndCR", 1))
         [] c.b = 77 -> Call(pp, HN("MoveUp", 1))
         [] c.b = 66 -> configureCharset(pp, c.intermediates, "Ascii")
         [] c.b = 48 -> configureCharset(pp, c.intermediates, "SpecialLineDrawing")
         [] c.b = 72 -> Call(pp, H0("SetTabStop"))
         [] OTHER -> pp

\* processorPerformer: one Performer call.
perform(pp, c) ==
  CASE c.op = "Print" -> performPrint(pp, c.c)
    [] c.op = "Execute" -> performExecute(pp, c.b)
    [] c.op = "Hook" -> performHook(pp, c)
    [] c.op = "Put" -> performPut(pp, c.b)
    [] c.op = "Unhook" -> performUnhook(pp)
    [] c.op = "OscDispatch" -> performOscDispatch(pp, c)
    [] c.op = "CsiDispatch" -> performCsiDispatch(pp, c)
    [] c.op = "EscDispatch" -> performEscDispatch(pp, c)

\* The Performer calls of one Parser.Advance, in call order.
RECURSIVE performAll(_, _)
performAll(ls, calls) ==
  IF ls.i > Len(calls) THEN ls.pp
  ELSE performAll([pp |-> perform(ls.pp, calls[ls.i]), i |-> ls.i + 1], calls)

\* ------------------------------------------------------------------------
\* Processor.  A processor value is [parser, syncState, dcsState]; run
\* values [pr, perf, hand] add the Performer and Handler calls of a call.
\* ------------------------------------------------------------------------
NewProcessor ==
  [parser |-> NewParser, syncState |-> NewSyncState, dcsState |-> NewDCSState]

\* p.parser.Advance(performer, bytes) with a processorPerformer.
\* The run value once the parser has returned m and the performer is pp.
parsed(pr, m, pp) ==
  [pr |-> [pr EXCEPT !.parser = [m EXCEPT !.out = <<>>], !.dcsState = pp.dcs],
   perf |-> m.out, hand |-> pp.hand]

\* The performer's part: the calls the parser made, turned into Handler calls.
performed(pr, m) ==
  parsed(pr, m,
         performAll([pp |-> [dcs |-> pr.dcsState, hand |-> <<>>], i |-> 1], m.out))

parse(pr, bytes) == performed(pr, Advance([pr.parser EXCEPT !.out = <<>>], bytes))

\* A flush that leaves the buffer as it is.
processSyncBufferKeepsBuffer(pr) ==
  IF Len(pr.syncState.buffer) = 0 THEN [pr |-> pr, perf |-> <<>>, hand |-> <<>>]
  ELSE parse(pr, pr.syncState.buffer)

processSyncBuffer(pr) ==
  IF Len(pr.syncState.buffer) = 0 THEN [pr |-> pr, perf |-> <<>>, hand |-> <<>>]
  ELSE LET r == parse(pr, pr.syncState.buffer)
       IN [r EXCEPT !.pr.syncState.buffer = <<>>]

ProcessorAdvance(pr, bytes) ==
  IF pr.syncState.enabled
  THEN LET p1 == [pr EXCEPT !.syncState.buffer = @ \o bytes]
       IN IF p1.syncState.elapsed
          THEN LET r == processSyncBuffer(p1)
               IN [r EXCEPT !.pr.syncState.enabled = FALSE]
          ELSE [pr |-> p1, perf |-> <<>>, hand |-> <<>>]
  ELSE parse(pr, bytes)

\* startTime = now: nothing has elapsed yet.
BeginSynchronizedUpdate(pr) ==
  [pr EXCEPT !.syncState = [enabled |-> TRUE, buffer |-> <<>>, elapsed |-> FALSE]]

\* <<processor, bytes written to the output sink>>.
EndSynchronizedUpdate(pr, hasOutput) ==
  IF pr.syncState.enabled
  THEN <<[pr EXCEPT !.syncState.enabled = FALSE, !.syncState.buffer = <<>>],
         IF hasOutput /\ Len(pr.syncState.buffer) > 0
         THEN pr.syncState.buffer ELSE <<>>>>
  ELSE <<pr, <<>>>>

\* <<processor, bytes written to the output sink>>.
Write(pr, hasOutput, data) ==
  IF pr.syncState.enabled
  THEN <<[pr EXCEPT !.syncState.buffer = @ \o data], <<>>>>
  ELSE IF hasOutput THEN <<pr, data>>
  ELSE <<pr, <<>>>>

\* A reset that keeps the parser it has.
ResetKeepsParser(pr) ==
  [pr EXCEPT !.syncState.enabled = FALSE, !.syncState.buffer = <<>>,
             !.dcsState = NewDCSState]

\* startTime and timeout are left as they are.
Reset(pr) ==
  [pr EXCEPT !.parser = NewParser,
             !.syncState.enabled = FALSE, !.syncState.buffer = <<>>,
             !.dcsState = NewDCSState]

\* ------------------------------------------------------------------------
\* State
\* ------------------------------------------------------------------------
VARIABLES
  pr,         \* the Processor (its Parser, SyncState and DCSState)
  perf,       \* every Performer call the Parser has made, in order
  hand,       \* every Handler call made, in order
  output,     \* the bytes written to the output sink
  hasOutput,  \* whether the Processor was built with an output sink
  chunks,     \* the byte slices the caller will pass to Advance, in order
  k,          \* how many of them have been passed
  marks,      \* per Advance call made: the trace lengths when it returned,
              \* and whether the gate was closed when it was made
  scn,        \* how chunks was put together (fixed by Init)
  last,       \* the method of the Processor that returned last
  due,        \* the text passed to Write: sunk is what was passed with the
              \* gate off or has met an EndSynchronizedUpdate since, held
              \* is what was passed since the gate went on, n counts the
              \* Write calls
  store       \* a Params a caller uses directly: ps is the store, prev the
              \* store before the last call on it, call that call's method,
              \* ops the number of calls made, and want the values the
              \* calls stored, a list per Push and the Extends after it

vars ==
  <<pr, perf, hand, output, hasOutput, chunks, k, marks, scn, last, due,
    store>>

\* A store no method was called on yet.
StoreOf(ps) ==
  [ps |-> ps, prev |-> ps, call |-> "NewParams", ops |-> 0, want |-> <<>>]

\* The part of Init that is the state after NewProcessor.
NoCalls ==
  /\ pr = NewProcessor
  /\ perf = <<>>
  /\ hand = <<>>
  /\ output = <<>>
  /\ k = 0
  /\ marks = <<>>
  /\ last = "NewProcessor"
  /\ due = [sunk |-> <<>>, held |-> <<>>, n |-> 0]

\* The same, and a store from NewParams.
Fresh == NoCalls /\ store = StoreOf(NewParams)

\* Processor.Advance(handler, chunks[k + 1]).
\* The call has returned r: the processor it leaves and the calls it made.
Returns(r) ==
  /\ pr' = r.pr
  /\ perf' = perf \o r.perf
  /\ hand' = hand \o r.hand
  /\ marks' = Append(marks,
                [perf |-> Len(perf'), hand |-> Len(hand'),
                 gated |-> pr.syncState.enabled /\ ~pr.syncState.elapsed])

AdvanceCall ==
  /\ k < Len(chunks)
  /\ Returns(ProcessorAdvance(pr, chunks[k + 1]))
  /\ k' = k + 1
  /\ last' = "Advance"
  /\ UNCHANGED <<output, hasOutput, chunks, scn, due, store>>

\* Processor.BeginSynchronizedUpdate().
BeginCall ==
  /\ pr' = BeginSynchronizedUpdate(pr)
  /\ last' = "BeginSynchronizedUpdate"
  /\ due' = [due EXCEPT !.held = <<>>]
  /\ UNCHANGED <<perf, hand, output, hasOutput, chunks, k, marks, scn, store>>

\* Processor.EndSynchronizedUpdate().
EndCall ==
  /\ LET r == EndSynchronizedUpdate(pr, hasOutput)
     IN pr' = r[1] /\ output' = output \o r[2]
  /\ last' = "EndSynchronizedUpdate"
  /\ due' = [due EXCEPT !.sunk = @ \o due.held, !.held = <<>>]
  /\ UNCHANGED <<perf, hand, hasOutput, chunks, k, marks, scn, store>>

\* The texts a caller passes to Write: "x" and "y".
Texts == {<<120>>, <<121>>}

MaxWrites == 2

\* Processor.Write(data).
WriteCall ==
  /\ due.n < MaxWrites
  /\ \E data \in Texts :
       /\ LET r == Write(pr, hasOutput, data)
          IN pr' = r[1] /\ output' = output \o r[2]
       /\ due' = IF pr.syncState.enabled
                 THEN [due EXCEPT !.held = @ \o data, !.n = @ + 1]
                 ELSE [due EXCEPT !.sunk = @ \o data, !.n = @ + 1]
  /\ last' = "Write"
  /\ UNCHANGED <<perf, hand, hasOutput, chunks, k, marks, scn, store>>

\* Processor.Reset().
ResetCall ==
  /\ pr' = Reset(pr)
  /\ last' = "Reset"
  /\ due' = [due EXCEPT !.held = <<>>]
  /\ UNCHANGED <<perf, hand, output, hasOutput, chunks, k, marks, scn, store>>

\* The clock passes startTime + timeout while the gate is on.
TimeoutElapses ==
  /\ pr.syncState.enabled
  /\ ~pr.syncState.elapsed
  /\ pr' = [pr EXCEPT !.syncState.elapsed = TRUE]
  /\ UNCHANGED <<perf, hand, output, hasOutput, chunks, k, marks, scn, last,
                 due, store>>

\* The values stored once a call with this value has returned ps: as
\* before if the call stored nothing, a new list for a Push and for an
\* Extend on an empty store, one more value in the last list otherwise.
Stored(ps, method, value) ==
  IF method = "Clear" THEN <<>>
  ELSE IF ParamsLen(ps) = ParamsLen(store.ps) THEN store.want
  ELSE IF method = "Push" \/ ParamsLen(store.ps) = 0
    THEN Append(store.want, <<value>>)
  ELSE [store.want EXCEPT ![Len(store.want)] = Append(@, value)]

\* The call on the store, made with this value, has returned ps.
StoreReturns(ps, method, value) ==
  /\ store' = [ps |-> ps, prev |-> store.ps, call |-> method,
               ops |-> store.ops + 1, want |-> Stored(ps, method, value)]
  /\ UNCHANGED <<pr, perf, hand, output, hasOutput, chunks, k, marks, scn,
                 last, due>>

MaxStoreOps == 4

StoreValues == {0, 7}

\* Params.Push(value).
PushCall ==
  /\ store.ops < MaxStoreOps
  /\ \E value \in StoreValues : StoreReturns(Push(store.ps, value), "Push", value)

\* Params.Extend(value).
ExtendCall ==
  /\ store.ops < MaxStoreOps
  /\ \E value \in StoreValues : StoreReturns(Extend(store.ps, value), "Extend", value)

\* Params.Clear().
ClearCall ==
  /\ store.ops < MaxStoreOps
  /\ StoreReturns(Clear(store.ps), "Clear", 0)

\* ------------------------------------------------------------------------
\* Inputs
\* ------------------------------------------------------------------------
\* All sequences over A of length at most n.
RECURSIVE Strings(_, _)
Strings(A, n) ==
  IF n = 0 THEN {<<>>}
  ELSE LET S == Strings(A, n - 1)
       IN S \cup {Append(s, a) : s \in {t \in S : Len(t) = n - 1}, a \in A}

\* Every way of passing s in two Advance calls.
Splits(s) == {<<Take(s, j), Tail0(s, j)>> : j \in 0..Len(s)}

\* The fields joined by the separator byte.
RECURSIVE Join(_, _)
Join(fields, sep) ==
  IF Len(fields) = 0 THEN <<>>
  ELSE IF Len(fields) = 1 THEN fields[1]
  ELSE fields[1] \o <<sep>> \o Join(Tail(fields), sep)

\* The decimal digits of n, as bytes.
RECURSIVE Digits(_)
Digits(n) == IF n < 10 THEN <<48 + n>> ELSE Append(Digits(n \div 10), 48 + (n % 10))

\* The number a string of digits denotes (0 for the empty string).
RECURSIVE Val(_)
Val(ds) ==
  IF Len(ds) = 0 THEN 0 ELSE Val(Take(ds, Len(ds) - 1)) * 10 + (Last(ds) - 48)

\* The UTF-8 encoding of a code point.
Encode(cp) ==
  IF cp < 128 THEN <<cp>>
  ELSE IF cp < 2048 THEN <<192 + (cp \div 64), 128 + (cp % 64)>>
  ELSE IF cp < 65536
    THEN <<224 + (cp \div 4096), 128 + ((cp \div 64) % 64), 128 + (cp % 64)>>
  ELSE <<240 + (cp \div 262144), 128 + ((cp \div 4096) % 64),
         128 + ((cp \div 64) % 64), 128 + (cp % 64)>>

\* The bytes passed so far, as one slice.
Fed == Concat(Take(chunks, k))

\* The Performer calls of a new Parser given bs in one Advance call.
OneShot(bs) == Advance(NewParser, bs).out

\* The Handler calls of a new Processor given bs in one Advance call.
OneShotHand(bs) == parse(NewProcessor, bs).hand

\* The Performer calls made by the i-th Advance call.
PerfOfCall(i) ==
  SubSeq(perf, (IF i = 1 THEN 0 ELSE marks[i - 1].perf) + 1, marks[i].perf)

\* The Handler calls made by the i-th Advance call.
HandOfCall(i) ==
  SubSeq(hand, (IF i = 1 THEN 0 ELSE marks[i - 1].hand) + 1, marks[i].hand)

Ops(calls, name) == {i \in 1..Len(calls) : calls[i].op = name}

\* ------------------------------------------------------------------------
\* SpecChunk: every string over a small alphabet, passed in two calls
\* ------------------------------------------------------------------------
MaxLen == 4

ChunkAlphabet == {65, 27, 91, 109, 228, 189, 160}

InitChunk ==
  /\ Fresh
  /\ hasOutput = FALSE
  /\ \E s \in Strings(ChunkAlphabet, MaxLen) :
       /\ scn = [kind |-> "bytes", input |-> s]
       /\ chunks \in Splits(s)

NextChunk == AdvanceCall

SpecChunk == InitChunk /\ [][NextChunk]_vars

\* C1: passing a byte string in two Advance calls makes the same Performer
\* calls and the same Handler calls as passing it in one.
ChunkingInvariance ==
  k = Len(chunks) =>
    /\ perf = OneShot(scn.input)
    /\ hand = OneShotHand(scn.input)

\* Text: ASCII and bytes of encoded code points, no control byte.
IsText(bs) == \A i \in 1..Len(bs) : bs[i] \notin {ESC, 91, 109}

\* The Print calls stated for a text: the code point of a valid encoding,
\* U+FFFD for one byte of an invalid one, decoding going on at the next
\* byte, and nothing for the start of an encoding that the text ends in.
RECURSIVE Decoded(_)
Decoded(bs) ==
  IF Len(bs) = 0 THEN <<>>
  ELSE LET d == DecodeRune(bs)
       IN IF d[1] # RuneError THEN <<PrintCall(d[1])>> \o Decoded(Tail0(bs, d[2]))
          ELSE IF ~FullRune(bs) THEN <<>>
          ELSE <<PrintCall(RuneError)>> \o Decoded(Tail0(bs, 1))

\* C27: an invalid encoding makes Print(U+FFFD) and consumes one byte,
\* also when it is found invalid while a partial code point saved by the
\* previous Advance call is completed: no byte that follows is skipped.
InvalidUtf8OneByte ==
  (k = Len(chunks) /\ IsText(scn.input)) => perf = Decoded(scn.input)

\* ------------------------------------------------------------------------
\* SpecUtf8: one encoded code point, split in two, after some earlier input
\* ------------------------------------------------------------------------
MaxPre == 2

PreAlphabet == {65, 27, 91, 109}

\* Code points at the edges of each encoded length, and U+FFFD itself.
CodePoints ==
  {128, 233, 2047, 2048, 20320, 55295, 57344, 65533, 65535, 65536, 127757,
   1114111}

\* The parser is in Ground with no partial code point after bs.
GroundAfter(bs) ==
  LET m == Advance(NewParser, bs)
  IN m.state = "Ground" /\ m.partialUTF8 = <<>>

InitUtf8 ==
  /\ Fresh
  /\ hasOutput = FALSE
  /\ \E pre \in {s \in Strings(PreAlphabet, MaxPre) : GroundAfter(s)},
        cp \in CodePoints :
       \E j \in 1..(Len(Encode(cp)) - 1) :
         /\ scn = [kind |-> "utf8", pre |-> pre, cp |-> cp, at |-> j]
         /\ chunks = <<pre, Take(Encode(cp), j), Tail0(Encode(cp), j)>>

NextUtf8 == AdvanceCall

SpecUtf8 == InitUtf8 /\ [][NextUtf8]_vars

\* C8: a valid encoding of 2, 3 or 4 bytes that arrives in Ground (no
\* partial code point pending) split at an interior byte: the call with the
\* first part makes no Performer call, and the two calls together make
\* exactly one, the Print of the code point.
Utf8Splitting ==
  /\ k >= 2 => PerfOfCall(2) = <<>>
  /\ k = 3 => PerfOfCall(2) \o PerfOfCall(3) = <<PrintCall(scn.cp)>>

\* The case of C8: a four-byte encoding, its last byte alone in the second
\* call, printed after earlier text.
Utf8SplittingWitness ==
  /\ k = 3
  /\ Len(scn.pre) > 0
  /\ Len(chunks[2]) = 3
  /\ Len(chunks[3]) = 1
  /\ Last(perf) = PrintCall(scn.cp)

\* ------------------------------------------------------------------------
\* SpecCsi: ESC [ field ; field ; ... final, in one Advance call
\* ------------------------------------------------------------------------
MaxTail == 2

\* Digit strings within the cap: empty, small, with leading zeros, at the
\* cap and one past it.
FieldStrings ==
  {<<>>, Digits(0), Digits(7), <<48, 48, 55>>, Digits(42), Digits(9999),
   Digits(10000)}

\* Single fields around the cap, around 2^16, and long.
CapStrings ==
  {Digits(n) : n \in {9998, 10001, 65535, 65536, 65540, 75535, 75536, 99999,
                      123456789}}

PadFields == {<<>>, Digits(7)}

\* Lists that approach and pass MaxParams fields are a run of one field
\* followed by a short tail of any fields.
PadCounts == {0} \cup ((MaxParams - MaxTail)..(MaxParams + 1))

CsiFieldLists ==
  ({Rep(pad, n) \o tail : pad \in PadFields, n \in PadCounts,
                          tail \in Strings(FieldStrings, MaxTail)}
     \cup {<<d>> : d \in CapStrings}) \ {<<>>}

Finals == {109, 72}

CsiBytes(fields, final) == <<ESC, 91>> \o Join(fields, 59) \o <<final>>

InitCsi ==
  /\ Fresh
  /\ hasOutput = FALSE
  /\ \E fields \in CsiFieldLists, final \in Finals :
       /\ scn = [kind |-> "csi", fields |-> fields, final |-> final]
       /\ chunks = <<CsiBytes(fields, final)>>

NextCsi == AdvanceCall

SpecCsi == InitCsi /\ [][NextCsi]_vars

InCap(fields) == \A i \in 1..Len(fields) : Val(fields[i]) <= ParamCap

Slots(groups) == Len(Concat(groups))

\* The fields that yield a group: all of them, but for an empty last field.
Delivered(fields) ==
  IF Len(fields) > 0 /\ Len(Last(fields)) = 0
  THEN Take(fields, Len(fields) - 1) ELSE fields

\* C5: a CSI sequence with more than MaxParams parameter slots is dispatched
\* with the first MaxParams of them and ignore = TRUE.
ParamOverflowFlag ==
  (k = 1 /\ Len(Delivered(scn.fields)) > MaxParams) =>
    /\ Len(perf) = 1
    /\ perf[1].op = "CsiDispatch"
    /\ Slots(perf[1].params) = MaxParams
    /\ perf[1].ignore = TRUE

\* C6: the value delivered for a parameter written as a digit string is the
\* smaller of the number and 9999.
ParamValueCap ==
  (k = 1 /\ Len(scn.fields) = 1 /\ Len(scn.fields[1]) > 0) =>
    /\ Len(perf) = 1
    /\ perf[1].params = <<<<Min(Val(scn.fields[1]), ParamCap)>>>>

\* The groups [[p1], ..., [pk]] of a field list, 0 for an empty field.
FieldGroups(fields) == [i \in 1..Len(fields) |-> <<Val(fields[i])>>]

\* The claim of C7 as first stated: every empty field, the last included,
\* contributes the group [0].
ParamPreservationAllFields ==
  (k = 1 /\ Len(scn.fields) <= MaxParams /\ InCap(scn.fields)) =>
    /\ Len(perf) = 1
    /\ perf[1].op = "CsiDispatch"
    /\ perf[1].action = scn.final
    /\ perf[1].params = FieldGroups(scn.fields)

\* C7: a CSI sequence of at most MaxParams fields separated by ';', each a
\* number up to 9999 or empty, makes exactly one CsiDispatch, with the
\* final byte and one group per field, [0] for an empty field that a ';'
\* follows; an empty last field yields no group.
ParamPreservation ==
  (k = 1 /\ Len(scn.fields) <= MaxParams /\ InCap(scn.fields)) =>
    /\ Len(perf) = 1
    /\ perf[1].op = "CsiDispatch"
    /\ perf[1].action = scn.final
    /\ perf[1].ignore = FALSE
    /\ perf[1].params = FieldGroups(Delivered(scn.fields))

\* The case of C7: MaxParams fields, an empty one in the middle, all
\* delivered.
ParamPreservationWitness ==
  /\ k = 1
  /\ Len(scn.fields) = MaxParams
  /\ InCap(scn.fields)
  /\ \E i \in 1..(MaxParams - 1) : Len(scn.fields[i]) = 0
  /\ Len(Last(scn.fields)) > 0
  /\ Len(perf[1].params) = MaxParams

\* ------------------------------------------------------------------------
\* SpecSub: ESC [ group ; group ; ... m, the fields of a group separated by
\* ':', in one Advance call
\* ------------------------------------------------------------------------
MaxSub == 3

SubFields == {<<>>, Digits(5), Digits(9999)}

\* A group is the list of its fields.
SubGroups(n) == Strings(SubFields, n) \ {<<>>}

\* The group under test, after nothing or after the group "1", and before
\* nothing or before a group of one or two fields.
SubGroupLists ==
  {pre \o <<g>> \o post :
     pre \in {<<>>, <<<<Digits(1)>>>>}, g \in SubGroups(MaxSub),
     post \in {<<>>} \cup {<<h>> : h \in SubGroups(2)}}

SubBytes(groups) ==
  <<ESC, 91>> \o Join([i \in 1..Len(groups) |-> Join(groups[i], 58)], 59)
    \o <<109>>

InitSub ==
  /\ Fresh
  /\ hasOutput = FALSE
  /\ \E groups \in SubGroupLists :
       /\ scn = [kind |-> "sub", groups |-> groups]
       /\ chunks = <<SubBytes(groups)>>

NextSub == AdvanceCall

SpecSub == InitSub /\ [][NextSub]_vars

\* The values of the fields of a group, 0 for an empty field.
GroupValues(g) == [i \in 1..Len(g) |-> Val(g[i])]

\* Every group ends with a number: its last field is not empty.
GroupsEndWithNumber(groups) ==
  \A i \in 1..Len(groups) : Len(Last(groups[i])) > 0

\* C15: the fields of a parameter group, separated by ':', are delivered
\* as one group in order, an empty field before a ':' as 0 (p:q:r gives
\* [p,q,r], ::q gives [0,0,q], :q gives [0,q]), and ';' closes the group
\* (a:b;c gives [[a,b],[c]]).
SubparamPreservation ==
  (k = 1 /\ GroupsEndWithNumber(scn.groups)) =>
    /\ Len(perf) = 1
    /\ perf[1].op = "CsiDispatch"
    /\ perf[1].ignore = FALSE
    /\ perf[1].params = [i \in 1..Len(scn.groups) |-> GroupValues(scn.groups[i])]

\* The case of C15: ::q followed by a group a:b, after the group 1.
SubparamPreservationWitness ==
  /\ k = 1
  /\ Len(scn.groups) = 3
  /\ scn.groups[2] = <<<<>>, <<>>, Digits(5)>>
  /\ Len(scn.groups[3]) = 2
  /\ GroupsEndWithNumber(scn.groups)
  /\ perf[1].params[2] = <<0, 0, 5>>
  /\ Len(perf[1].params[3]) = 2

\* ------------------------------------------------------------------------
\* SpecOsc: ESC ] a ; b terminator, in one Advance call
\* ------------------------------------------------------------------------
MaxOscField == 2

MaxOver == 2

\* A digit, a letter, a control byte, a byte above 0x7F, '\' and DEL.
OscAlphabet == {50, 65, 10, 233, BSL, DEL}

ShortFields == Strings(OscAlphabet, MaxOscField) \ {<<>>}

\* Second fields that bring the body to the edge of MaxOSCRaw and past it.
LongFields == {Rep(65, n) : n \in (MaxOSCRaw - 2)..(MaxOSCRaw + MaxOver)}

ST == <<ESC, BSL>>

Terminators == {<<BEL>>, ST}

OscBytes(a, b, term) == <<ESC, 93>> \o a \o <<59>> \o b \o term

InitOsc ==
  /\ Fresh
  /\ hasOutput = FALSE
  /\ \E a \in ShortFields, b \in ShortFields \cup LongFields,
        term \in Terminators :
       /\ b \in LongFields => a = <<50>>
       /\ scn = [kind |-> "osc", a |-> a, b |-> b, term |-> term]
       /\ chunks = <<OscBytes(a, b, term)>>

NextOsc == AdvanceCall

SpecOsc == InitOsc /\ [][NextOsc]_vars

\* The body a ; b, the ';' included, is within MaxOSCRaw bytes.
OscFits == Len(scn.a) + 1 + Len(scn.b) <= MaxOSCRaw

\* C9: ESC ] a ; b BEL and ESC ] a ; b ESC \, for non-empty a and b without
\* BEL, ESC or ';' that fit the OSC bounds, each make exactly one
\* OscDispatch, with params [a, b] and bellTerminated true for BEL alone,
\* and leave the parser in Ground.
OscFraming ==
  (k = 1 /\ OscFits) =>
    /\ perf = <<OscCall(<<scn.a, scn.b>>, scn.term = <<BEL>>)>>
    /\ pr.parser.state = "Ground"

\* C10: an OSC body longer than MaxOSCRaw ends, at BEL or at ESC \, with
\* exactly one OscDispatch that carries the first MaxOSCRaw bytes, and a
\* return to Ground.
OscOverflowTruncation ==
  (k = 1 /\ Len(scn.a) + Len(scn.b) > MaxOSCRaw) =>
    /\ Len(perf) = 1
    /\ perf[1].op = "OscDispatch"
    /\ perf[1].bellTerminated = (scn.term = <<BEL>>)
    /\ Concat(perf[1].params) = Take(scn.a \o scn.b, MaxOSCRaw)
    /\ pr.parser.state = "Ground"

\* ------------------------------------------------------------------------
\* SpecDcs: ESC P header payload terminator, passed in two Advance calls
\* ------------------------------------------------------------------------
MaxPayload == 3

\* "q", "1$q" and "1;2|".
DcsHeaders == {<<113>>, <<49, 36, 113>>, <<49, 59, 50, 124>>}

PayloadAlphabet == {109, ESC, BSL, DEL}

\* No ESC \ inside the payload: the first one is the terminator.
NoST(bs) == \A i \in 1..(Len(bs) - 1) : ~(bs[i] = ESC /\ bs[i + 1] = BSL)

Payloads == {p \in Strings(PayloadAlphabet, MaxPayload) : NoST(p)}

DcsBytes(header, payload, term) == <<ESC, 80>> \o header \o payload \o term

InitDcs ==
  /\ Fresh
  /\ hasOutput = FALSE
  /\ \E header \in DcsHeaders, payload \in Payloads, term \in Terminators :
       /\ scn = [kind |-> "dcs", header |-> header, payload |-> payload,
                 term |-> term]
       /\ chunks \in Splits(DcsBytes(header, payload, term))

NextDcs == AdvanceCall

SpecDcs == InitDcs /\ [][NextDcs]_vars

\* The Hook call the header makes.
HookOf(header) == OneShotHand(<<ESC, 80>> \o header)[1]

\* C4: a DCS sequence ended by ESC \ or by BEL, however it is split over
\* two Advance calls, gives the Handler Hook, then one Put with all the
\* payload bytes in order (none for an empty payload), then Unhook, and
\* nothing else.
DcsForwarding ==
  k = Len(chunks) =>
    hand = <<HookOf(scn.header)>>
             \o (IF Len(scn.payload) > 0
                 THEN <<[op |-> "Put", data |-> scn.payload]>> ELSE <<>>)
             \o <<H0("Unhook")>>

\* The positions of ESC in a payload.
EscAt(payload) == {i \in 1..Len(payload) : payload[i] = ESC}

\* C11: a DCS body payload1 ESC payload2 ESC \, the inner ESC not followed
\* by '\' and no other ESC in it, gives the Handler exactly one Put, whose
\* data is payload1, 0x1B, payload2, and gives it before Unhook.
DcsEscBatching ==
  (k = Len(chunks) /\ scn.term = ST /\ Cardinality(EscAt(scn.payload)) = 1) =>
    /\ Cardinality(Ops(hand, "Put")) = 1
    /\ \A i \in Ops(hand, "Put") :
         /\ hand[i].data = scn.payload
         /\ \E j \in Ops(hand, "Unhook") : i < j

\* The bytes of the Put calls, in call order.
RECURSIVE PutBytes(_)
PutBytes(calls) ==
  IF Len(calls) = 0 THEN <<>>
  ELSE IF Head(calls).op = "Put" THEN <<Head(calls).b>> \o PutBytes(Tail(calls))
  ELSE PutBytes(Tail(calls))

\* C28: in DCSPassthrough every byte that is not part of the terminator is
\* passed to Put once, in stream order; an ESC that no '\' follows is Put
\* itself, before the byte that follows it.
DcsPutEveryByte ==
  k = Len(chunks) => PutBytes(perf) = scn.payload

\* A DCS sequence whose payload is '\' and 'm'.
LaterDcs == DcsBytes(<<113>>, <<BSL, 109>>, ST)

\* C29: pendingESC is false whenever the parser is outside DCSPassthrough,
\* and after a DCS sequence ended by BEL a later DCS sequence whose payload
\* begins with '\' gets that byte through Put.
PendingEscNoLeak ==
  /\ pr.parser.state # "DCSPassthrough" => ~pr.parser.pendingESC
  /\ (k = Len(chunks) /\ scn.term = <<BEL>>) =>
       PutBytes(ProcessorAdvance(pr, LaterDcs).perf) = <<BSL, 109>>

\* ------------------------------------------------------------------------
\* SpecCancel: ESC P header payload, then CAN or SUB, in two Advance calls
\* ------------------------------------------------------------------------
Cancels == {CAN, SUB}

InitCancel ==
  /\ Fresh
  /\ hasOutput = FALSE
  /\ \E header \in DcsHeaders, payload \in Payloads, b \in Cancels :
       /\ scn = [kind |-> "cancel", header |-> header, payload |-> payload,
                 b |-> b]
       /\ chunks \in Splits(DcsBytes(header, payload, <<b>>))

NextCancel == AdvanceCall

SpecCancel == InitCancel /\ [][NextCancel]_vars

\* C12: CAN or SUB in DCSPassthrough makes Unhook and then the Execute of
\* that byte, each exactly once and in that order, and leaves the parser in
\* Ground.
DcsCancellationOrder ==
  k = Len(chunks) =>
    /\ Cardinality(Ops(perf, "Unhook")) = 1
    /\ Cardinality(Ops(perf, "Execute")) = 1
    /\ Len(perf) >= 2
    /\ perf[Len(perf) - 1] = UnhookCall
    /\ perf[Len(perf)] = ExecuteCall(scn.b)
    /\ pr.parser.state = "Ground"

\* The case of C12: CAN arrives alone in the second call, after a payload
\* that was Put in the first.
DcsCancellationOrderWitness ==
  /\ k = 2
  /\ chunks[2] = <<CAN>>
  /\ Len(scn.payload) = MaxPayload
  /\ Cardinality(Ops(perf, "Put")) > 0
  /\ SubSeq(perf, Len(perf) - 1, Len(perf)) = <<UnhookCall, ExecuteCall(CAN)>>
  /\ pr.parser.state = "Ground"

\* ------------------------------------------------------------------------
\* SpecInter: ESC [ marker digits intermediates final, and ESC intermediates
\* final, in two Advance calls
\* ------------------------------------------------------------------------
MaxInter == 4

\* None, and '<', '=', '>', '?'.
Markers == {<<>>, <<60>>, <<61>>, <<62>>, <<63>>}

\* ' ', '!' and '/'.
InterAlphabet == {32, 33, 47}

\* "ESC [" with a marker and a parameter, or a bare "ESC".
Intros ==
  {[kind |-> "CsiDispatch", marker |-> mk, digits |-> ds] :
     mk \in Markers, ds \in {<<>>, Digits(1)}}
    \cup {[kind |-> "EscDispatch", marker |-> <<>>, digits |-> <<>>]}

InterBytes(intro, inter, final) ==
  (IF intro.kind = "CsiDispatch" THEN <<ESC, 91>> ELSE <<ESC>>)
    \o intro.marker \o intro.digits \o inter \o <<final>>

InitInter ==
  /\ Fresh
  /\ hasOutput = FALSE
  /\ \E intro \in Intros, inter \in Strings(InterAlphabet, MaxInter),
        final \in {70, 112} :
       /\ scn = [kind |-> "inter", intro |-> intro, inter |-> inter,
                 final |-> final]
       /\ chunks \in Splits(InterBytes(intro, inter, final))

NextInter == AdvanceCall

SpecInter == InitInter /\ [][NextInter]_vars

\* C13: a CSI sequence with a private marker and exactly two intermediate
\* bytes is dispatched with ignore = FALSE, the marker and both
\* intermediates delivered.
PrivateMarkerNotCounted ==
  (k = Len(chunks) /\ Len(scn.intro.marker) = 1
     /\ Len(scn.inter) = MaxIntermediates) =>
    /\ Len(perf) = 1
    /\ perf[1].op = "CsiDispatch"
    /\ perf[1].ignore = FALSE
    /\ perf[1].intermediates = scn.intro.marker \o scn.inter

\* C14: a CSI or ESC sequence with more than MaxIntermediates intermediate
\* bytes is dispatched exactly once, with ignore = TRUE and with the first
\* two intermediate bytes (after the marker, if there is one) and no other.
IntermediateOverflowFlag ==
  (k = Len(chunks) /\ Len(scn.inter) > MaxIntermediates) =>
    /\ Len(perf) = 1
    /\ perf[1].op = scn.intro.kind
    /\ perf[1].ignore = TRUE
    /\ perf[1].intermediates
         = scn.intro.marker \o Take(scn.inter, MaxIntermediates)

\* ------------------------------------------------------------------------
\* SpecSafe: an introducer and a run of one byte in one Advance call, up to
\* and past each bound of the parser, then a tail passed byte by byte
\* ------------------------------------------------------------------------
MaxSafeTail == 2

\* Nothing, ESC, CSI, DCS header, DCS passthrough, OSC, and the lead byte
\* F0 of a four-byte encoding.
SafeIntros ==
  {<<>>, <<ESC>>, <<ESC, 91>>, <<ESC, 80>>, <<ESC, 80, 113>>, <<ESC, 93>>,
   <<240>>}

\* ';', ':', '5', ' ', 'A', ESC, and the continuation byte 0x90.
RunBytes == {59, 58, 53, 32, 65, ESC, 144}

\* Run lengths up to and past MaxIntermediates, MaxOSCParams and MaxParams.
RunLengths ==
  (0..(MaxIntermediates + 1))
    \cup (MaxOSCParams..(MaxOSCParams + 1))
    \cup (MaxParams..(MaxParams + 1))

\* Run lengths around MaxOSCRaw, for an OSC body.
LongRunLengths == (MaxOSCRaw - 2)..(MaxOSCRaw + 1)

SafeTailAlphabet == {BEL, ESC, BSL, 59, 109, 144}

\* One slice per byte.
Singles(bs) == [i \in 1..Len(bs) |-> <<bs[i]>>]

InitSafe ==
  /\ Fresh
  /\ hasOutput = FALSE
  /\ \E intro \in SafeIntros, b \in RunBytes,
        n \in RunLengths \cup LongRunLengths,
        tail \in Strings(SafeTailAlphabet, MaxSafeTail) :
       /\ n \in LongRunLengths =>
            intro = <<ESC, 93>> /\ b \in {65, 59, ESC} /\ Len(tail) <= 1
       /\ Len(intro) + n > 0
       /\ scn = [kind |-> "safe", intro |-> intro, b |-> b, n |-> n,
                 tail |-> tail]
       /\ chunks = <<intro \o Rep(b, n)>> \o Singles(tail)

NextSafe == AdvanceCall

SpecSafe == InitSafe /\ [][NextSafe]_vars

\* The slices oscDispatch would take of raw are within it, and together
\* they are raw.
OscSlicesInRange(raw, bounds) ==
  /\ oscSplit(raw, bounds, 1, <<<<>>, 0>>)[2] <= Len(raw)
  /\ Concat(oscFields(raw, bounds)) = raw

\* C16: after every Advance call the parser's buffers are within their
\* bounds (intermediates, parameter slots, OSC bytes, OSC boundaries, saved
\* bytes of a partial code point), the slices of an OSC dispatch are in
\* range, with the trailing ESC of ST trimmed as well, and the next call
\* consumes exactly the bytes it is given.
ParserWithinBounds ==
  LET m == pr.parser
  IN /\ Len(m.intermediates) <= MaxIntermediates
     /\ ParamsLen(m.params) <= MaxParams
     /\ Len(m.params.subparams) = ParamsLen(m.params)
     /\ Len(m.oscRaw) <= MaxOSCRaw
     /\ Len(m.oscParams) <= MaxOSCParams
     /\ m.oscNumParams = Len(m.oscParams)
     /\ Len(m.partialUTF8) <= UTFMax - 1
     /\ OscSlicesInRange(m.oscRaw, m.oscParams)
     /\ (Len(m.oscRaw) > 0 /\ Last(m.oscRaw) = ESC) =>
          OscSlicesInRange(Take(m.oscRaw, Len(m.oscRaw) - 1), m.oscParams)
     /\ k < Len(chunks) =>
          advanceRun(m, chunks[k + 1]).i = Len(chunks[k + 1])

\* The case of C16: an OSC body past MaxOSCRaw bytes, the buffer full.
ParserWithinBoundsWitness ==
  /\ k >= 1
  /\ scn.n > MaxOSCRaw
  /\ pr.parser.state = "OSCString"
  /\ Len(pr.parser.oscRaw) = MaxOSCRaw

\* ------------------------------------------------------------------------
\* SpecSgr: CSI 38/48 extended colour, ';' or ':' between the numbers
\* ------------------------------------------------------------------------
Components == {0, 1, 64, 128, 255}

ColourForms ==
  {<<2, r, g, b>> : r \in Components, g \in Components, b \in Components}
    \cup {<<5, n>> : n \in Components}

SgrBytes(target, form, sep) ==
  <<ESC, 91>> \o Join([i \in 1..(Len(form) + 1) |->
                         Digits(IF i = 1 THEN target ELSE form[i - 1])], sep)
    \o <<109>>

InitSgr ==
  /\ Fresh
  /\ hasOutput = FALSE
  /\ \E target \in {38, 48}, form \in ColourForms, sep \in {59, 58} :
       /\ scn = [kind |-> "sgr", target |-> target, form |-> form, sep |-> sep]
       /\ chunks = <<SgrBytes(target, form, sep)>>

NextSgr == AdvanceCall

SpecSgr == InitSgr /\ [][NextSgr]_vars

\* The colour a form denotes.
ColourOf(form) ==
  IF form[1] = 2 THEN RgbColor(form[2], form[3], form[4])
  ELSE IndexedColor(form[2])

\* C3: CSI 38/48 with 2;r;g;b or 5;n, written with ';' as with ':', makes
\* one Handler call, SetForeground/SetBackground of that colour, and no
\* other.
SgrExtendedColour ==
  k = 1 =>
    hand = <<[op |-> IF scn.target = 38 THEN "SetForeground" ELSE "SetBackground",
              color |-> ColourOf(scn.form)]>>

\* ------------------------------------------------------------------------
\* Spec: a Processor given chunks of input while the synchronized-update
\* gate is opened, closed and timed out in any order
\* ------------------------------------------------------------------------
MaxChunks == 3

\* Text, a whole CSI sequence, and a CSI sequence in two parts.
SyncChunks == {<<65>>, <<ESC, 91, 72>>, <<ESC, 91>>, <<53, 109>>}

InitSync ==
  /\ Fresh
  /\ hasOutput \in BOOLEAN
  /\ scn = [kind |-> "sync"]
  /\ chunks \in Strings(SyncChunks, MaxChunks)

Next == AdvanceCall \/ BeginCall \/ EndCall \/ TimeoutElapses

Spec == InitSync /\ [][Next]_vars

\* An Advance call while the gate is on and its timeout has not passed.
GatedAdvance == k' = k + 1 /\ pr.syncState.enabled /\ ~pr.syncState.elapsed

\* An EndSynchronizedUpdate call that closes the gate.
GateCloses == k' = k /\ pr.syncState.enabled /\ ~pr'.syncState.enabled

\* C2: an Advance call while the gate is on makes no Handler call, and
\* EndSynchronizedUpdate parses the bytes passed since the gate went on:
\* the Handler gets the calls they make with the gate off, in that order.
SyncBuffering ==
  [][/\ GatedAdvance => hand' = hand
     /\ GateCloses => hand' = hand \o parse(pr, pr.syncState.buffer).hand]_vars

\* The timeout has passed when Advance is called with the gate on.
TimedOutAdvance == k' = k + 1 /\ pr.syncState.enabled /\ pr.syncState.elapsed

\* C18: an Advance call with the gate on after the timeout has passed
\* parses, within the call, all buffered bytes and then its own, in arrival
\* order, empties the buffer and turns the gate off; before the timeout it
\* only appends its bytes to the buffer.
SyncTimeoutFlush ==
  [][/\ TimedOutAdvance =>
          /\ hand' = hand \o parse(pr, pr.syncState.buffer \o chunks[k + 1]).hand
          /\ perf' = perf \o parse(pr, pr.syncState.buffer \o chunks[k + 1]).perf
          /\ pr'.syncState.buffer = <<>>
          /\ ~pr'.syncState.enabled
     /\ GatedAdvance =>
          /\ pr' = [pr EXCEPT !.syncState.buffer = @ \o chunks[k + 1]]
          /\ hand' = hand
          /\ perf' = perf]_vars

\* The case of C18: "A" was buffered by the first Advance call, and the
\* second, made after the timeout, parsed it and then its own bytes.
SyncTimeoutFlushWitness ==
  /\ k = 2
  /\ last = "Advance"
  /\ chunks[1] = <<65>>
  /\ marks[1].gated
  /\ marks[1].hand = 0
  /\ pr.syncState.elapsed
  /\ ~pr.syncState.enabled
  /\ pr.syncState.buffer = <<>>
  /\ hand = OneShotHand(chunks[1] \o chunks[2])

\* ------------------------------------------------------------------------
\* SpecOps: a Processor given chunks that stop inside a sequence, text for
\* its sink and resets, the gate opened, closed and timed out in any order
\* ------------------------------------------------------------------------
MaxOpsChunks == 2

\* Text, an unfinished CSI sequence, the first byte of a code point, and a
\* DCS sequence up to an ESC in its payload.
OpsChunks == {<<65>>, <<ESC, 91>>, <<228>>, <<ESC, 80, 113, ESC>>}

InitOps ==
  /\ Fresh
  /\ hasOutput \in BOOLEAN
  /\ scn = [kind |-> "ops"]
  /\ chunks \in Strings(OpsChunks, MaxOpsChunks)

NextOps ==
  AdvanceCall \/ BeginCall \/ EndCall \/ TimeoutElapses \/ WriteCall
    \/ ResetCall

SpecOps == InitOps /\ [][NextOps]_vars

\* The bytes of the sink that came from Write.
RECURSIVE WrittenPart(_)
WrittenPart(bs) ==
  IF Len(bs) = 0 THEN <<>>
  ELSE IF <<Last(bs)>> \in Texts
    THEN Append(WrittenPart(Take(bs, Len(bs) - 1)), Last(bs))
  ELSE WrittenPart(Take(bs, Len(bs) - 1))

\* C19: with a sink attached, text passed to Write with the gate off is in
\* the sink at once; text passed with the gate on is not in the sink before
\* EndSynchronizedUpdate, and is in it, once and in call order, after;
\* EndSynchronizedUpdate leaves the gate off and the buffer empty.
BufferedOutput ==
  /\ hasOutput => WrittenPart(output) = due.sunk
  /\ last = "EndSynchronizedUpdate" =>
       ~pr.syncState.enabled /\ pr.syncState.buffer = <<>>

\* The bytes of the texts passed to Write; no chunk passed to Advance has
\* one of them.
TextBytes == {t[1] : t \in Texts}

\* C34: the bytes passed to Advance are never written to the sink, and the
\* text passed to Write is never parsed into Handler calls, whether the
\* gate is turned off by EndSynchronizedUpdate or by its timeout.
PathsNeverCross ==
  /\ \A i \in 1..Len(output) : output[i] \in TextBytes
  /\ \A i \in Ops(hand, "Input") : hand[i].c \notin TextBytes

\* ------------------------------------------------------------------------
\* SpecReset: the same chunks, with resets, and no text for the sink
\* ------------------------------------------------------------------------
InitReset ==
  /\ Fresh
  /\ hasOutput = FALSE
  /\ scn = [kind |-> "reset"]
  /\ chunks \in Strings(OpsChunks, MaxOpsChunks)

NextReset ==
  AdvanceCall \/ BeginCall \/ EndCall \/ TimeoutElapses \/ ResetCall

SpecReset == InitReset /\ [][NextReset]_vars

\* Inputs that tell a parser in Ground from one inside a sequence.
ResetInputs == {<<65>>, <<53, 109>>, <<189, 160>>, <<109, ESC, BSL>>}

\* C17: when Reset returns the parser is in Ground with every accumulator
\* empty, the gate is off with an empty buffer, and input that follows
\* makes the Performer and Handler calls it makes on a new Processor.
ResetRestores ==
  last = "Reset" =>
    /\ pr.parser = NewParser
    /\ pr.dcsState = NewDCSState
    /\ ~pr.syncState.enabled
    /\ pr.syncState.buffer = <<>>
    /\ \A bs \in ResetInputs :
         /\ ProcessorAdvance(pr, bs).hand = OneShotHand(bs)
         /\ ProcessorAdvance(pr, bs).perf = OneShot(bs)

\* The case of C17: Reset was called with the gate on and bytes buffered,
\* after an Advance call that stopped in a DCS payload after an ESC.
ResetRestoresWitness ==
  /\ last = "Reset"
  /\ k = 2
  /\ chunks[1] = <<ESC, 80, 113, ESC>>
  /\ marks[1].hand = 1
  /\ marks[2].gated
  /\ pr.syncState.elapsed
  /\ pr.parser = NewParser

\* No Unhook among the calls i + 1 .. j - 1.
OpenBetween(i, j) == \A l \in (i + 1)..(j - 1) : hand[l].op # "Unhook"

\* C33: over any Advance and Reset calls Hook and Unhook alternate in the
\* Handler's calls, Hook first: an Unhook comes between any two Hooks, and
\* every Unhook and every Put has a Hook before it with no Unhook between.
HookUnhookAlternate ==
  /\ \A i \in Ops(hand, "Hook"), j \in Ops(hand, "Hook") :
       i < j => ~OpenBetween(i, j)
  /\ \A j \in Ops(hand, "Unhook") \cup Ops(hand, "Put") :
       \E i \in Ops(hand, "Hook") : i < j /\ OpenBetween(i, j)

\* ------------------------------------------------------------------------
\* SpecStore: Push, Extend and Clear in any order, on a store that is empty
\* or within a few slots of full
\* ------------------------------------------------------------------------
\* The store after n calls of Push.
RECURSIVE Pushed(_)
Pushed(n) == IF n = 0 THEN NewParams ELSE Push(Pushed(n - 1), 7)

\* The store after n calls of Extend: one group of n slots.
RECURSIVE Extended(_)
Extended(n) == IF n = 0 THEN NewParams ELSE Extend(Extended(n - 1), 7)

StoreFills == {0} \cup ((MaxParams - MaxStoreOps + 1)..MaxParams)

InitStore ==
  /\ NoCalls
  /\ hasOutput = FALSE
  /\ chunks = <<>>
  /\ \E n \in StoreFills, grouped \in BOOLEAN :
       /\ scn = [kind |-> "store", n |-> n, grouped |-> grouped]
       /\ store = [StoreOf(IF grouped THEN Extended(n) ELSE Pushed(n))
                    EXCEPT !.want = IF grouped
                                    THEN IF n = 0 THEN <<>> ELSE <<Rep(7, n)>>
                                    ELSE Rep(<<7>>, n)]

NextStore == PushCall \/ ExtendCall \/ ClearCall

SpecStore == InitStore /\ [][NextStore]_vars

\* The slots after slot i that belong to its group: those up to the next
\* slot with a count.
GroupSlots(ps, i) ==
  {j \in i..ParamsLen(ps) : \A h \in (i + 1)..j : ps.subparams[h] = 0}

\* C20: after any calls of Push, Extend and Clear the store has at most
\* MaxParams slots, the count of every slot that starts a group is the
\* number of slots of the group, a Push or Extend on a full store leaves
\* it as it was, and Clear leaves an empty store.
ParamsInvariants ==
  /\ ParamsLen(store.ps) <= MaxParams
  /\ Len(store.ps.subparams) = ParamsLen(store.ps)
  /\ ParamsLen(store.ps) > 0 => store.ps.subparams[1] # 0
  /\ \A i \in 1..ParamsLen(store.ps) :
       store.ps.subparams[i] # 0 =>
         store.ps.subparams[i] = Cardinality(GroupSlots(store.ps, i))
  /\ (store.call \in {"Push", "Extend"} /\ IsFull(store.prev)) =>
       store.ps = store.prev
  /\ store.call = "Clear" => store.ps = NewParams /\ Iter(store.ps) = <<>>

\* The case of C20: an Extend on a full store whose last group has more
\* than one slot.
ParamsInvariantsWitness ==
  /\ store.call = "Extend"
  /\ IsFull(store.prev)
  /\ store.ops = MaxStoreOps
  /\ ~scn.grouped
  /\ Len(Last(Iter(store.ps))) > 1

\* C21: for a store built by Push and Extend, Iter yields groups that are
\* not empty, whose concatenation is the stored slots in their order, and
\* a group starts at each Push that stored its value (and at an Extend on
\* an empty store) and nowhere else.
IterRoundTrip ==
  /\ \A i \in 1..Len(Iter(store.ps)) : Len(Iter(store.ps)[i]) > 0
  /\ Concat(Iter(store.ps)) = store.ps.params
  /\ Iter(store.ps) = store.want

\* The case of C21: Push, Extend, Extend, Push on an empty store, which
\* gives two groups, of three values and of one.
IterRoundTripWitness ==
  /\ scn.n = 0
  /\ store.ops = MaxStoreOps
  /\ store.call = "Push"
  /\ Len(Iter(store.ps)) = 2
  /\ Len(Iter(store.ps)[1]) = 3
  /\ store.ps.params = <<7, 0, 7, 0>>

\* ------------------------------------------------------------------------
\* SpecHand: one input of a family the Processor turns into Handler calls
\* (OSC titles, mode changes, cursor commands, extended colours, text with
\* SGR, a sequence cut short by the start of another), passed in two
\* Advance calls
\* ------------------------------------------------------------------------
\* The OSC numbers 0, 1, 2, 3, 10 and 52, and 0 written "00".
TitleNumbers == {Digits(0), Digits(1), Digits(2), Digits(3), Digits(10),
                 Digits(52), <<48, 48>>}

\* "A", "AB" and "1".
Titles == {<<65>>, <<65, 66>>, <<49>>}

InitTitle ==
  \E num \in TitleNumbers, title \in Titles, term \in Terminators :
    /\ scn = [kind |-> "title", num |-> num, title |-> title, term |-> term]
    /\ chunks \in Splits(OscBytes(num, title, term))

MaxModeFields == 2

\* None, '?' and '>'.
ModeMarkers == {<<>>, <<63>>, <<62>>}

\* Empty, "4", "25", "537", "2004" and "25:1".
ModeFields ==
  {<<>>, Digits(4), Digits(25), Digits(537), Digits(2004), <<50, 53, 58, 49>>}

\* CSI marker field ; field h, and the same with l.
ModeSeqs ==
  {[marker |-> mk, fields |-> fs, final |-> final] :
     mk \in ModeMarkers, fs \in Strings(ModeFields, MaxModeFields),
     final \in {104, 108}}

\* Nothing, CSI ? 2004 h, or CSI 4 l.
ModeFollowers ==
  {<<>>, <<[marker |-> <<63>>, fields |-> <<Digits(2004)>>, final |-> 104]>>,
   <<[marker |-> <<>>, fields |-> <<Digits(4)>>, final |-> 108]>>}

ModeBytes(s) == <<ESC, 91>> \o s.marker \o Join(s.fields, 59) \o <<s.final>>

InitMode ==
  \E s \in ModeSeqs, next \in ModeFollowers :
    /\ scn = [kind |-> "mode", seqs |-> <<s>> \o next]
    /\ chunks \in Splits(Concat([i \in 1..Len(scn.seqs) |-> ModeBytes(scn.seqs[i])]))

\* Empty, "0", "5" and "9999".
DefaultFields == {<<>>, Digits(0), Digits(5), Digits(9999)}

\* Up to two fields, and the three empty fields of CSI ; ; H.
DefaultFieldLists == Strings(DefaultFields, 2) \cup {<<<<>>, <<>>, <<>>>>}

\* The final bytes of the commands that take a count, a column or a row
\* with default 1, and the Handler method of each.
CountMethods ==
  (65 :> "MoveUp") @@ (66 :> "MoveDown") @@ (67 :> "MoveForward")
    @@ (68 :> "MoveBackward") @@ (69 :> "MoveDownAndCR")
    @@ (70 :> "MoveUpAndCR") @@ (71 :> "GotoCol") @@ (76 :> "InsertLines")
    @@ (77 :> "DeleteLines") @@ (80 :> "DeleteChars") @@ (83 :> "ScrollUp")
    @@ (84 :> "ScrollDown") @@ (88 :> "EraseChars") @@ (64 :> "InsertBlank")
    @@ (100 :> "GotoLine") @@ (73 :> "TabForward") @@ (90 :> "TabBackward")

\* Those, and H, f and r.
DefaultFinals == DOMAIN CountMethods \cup {72, 102, 114}

InitDefault ==
  \E fields \in DefaultFieldLists, final \in DefaultFinals :
    /\ scn = [kind |-> "default", fields |-> fields, final |-> final]
    /\ chunks \in Splits(CsiBytes(fields, final))

\* Colour components at and past 255, up to the parameter cap.
ClampComponents == {0, 255, 256, ParamCap}

ClampForms ==
  {<<2, r, g, b>> : r \in ClampComponents, g \in ClampComponents,
                    b \in ClampComponents}
    \cup {<<5, n>> : n \in ClampComponents}

\* CSI 38 : 2 : r : g : b m, CSI 38 : 5 : n m, and the same with 48.
InitClamp ==
  \E target \in {38, 48}, form \in ClampForms :
    /\ scn = [kind |-> "clamp", target |-> target, form |-> form]
    /\ chunks \in Splits(SgrBytes(target, form, 58))

MaxText == 2

\* 'A', ' ' and '~'.
TextAlphabet == {65, 32, 126}

\* T1, CSI 31 m, T2, CSI 0 m.
OrderBytes(t1, t2) == t1 \o <<ESC, 91, 51, 49, 109>> \o t2 \o <<ESC, 91, 48, 109>>

InitOrder ==
  \E t1 \in Strings(TextAlphabet, MaxText), t2 \in Strings(TextAlphabet, MaxText) :
    /\ scn = [kind |-> "order", t1 |-> t1, t2 |-> t2]
    /\ chunks \in Splits(OrderBytes(t1, t2))

\* Sequences that stop in Escape, EscapeIntermediate, CSIEntry, CSIParam,
\* CSIIntermediate and CSIIgnore.
Unfinished ==
  {<<ESC>>, <<ESC, 32>>, <<ESC, 91>>, <<ESC, 91, 51>>, <<ESC, 91, 32>>,
   <<ESC, 91, 51, 60>>}

\* CSI 1 m, CSI H and ESC 7.
Restarts == {<<ESC, 91, 49, 109>>, <<ESC, 91, 72>>, <<ESC, 55>>}

InitRecover ==
  \E cut \in Unfinished, next \in Restarts :
    /\ scn = [kind |-> "recover", cut |-> cut, next |-> next]
    /\ chunks \in Splits(cut \o next)

\* DCS sequences up to the byte that enters DCSIgnore: ESC P 1 <,
\* ESC P SP ? and ESC P < <.
DcsIgnoreHeads == {<<ESC, 80, 49, 60>>, <<ESC, 80, 32, 63>>, <<ESC, 80, 60, 60>>}

\* What follows a sequence: "A" or CSI H.
Follows == {<<65>>, <<ESC, 91, 72>>}

\* An ignored DCS sequence with a body of 'm' and ';', ended by ESC \, CAN
\* or SUB, and what follows it.
InitDcsIgnore ==
  \E head \in DcsIgnoreHeads, body \in Strings({109, 59}, 1),
     term \in {ST, <<CAN>>, <<SUB>>}, follow \in Follows :
    /\ scn = [kind |-> "dcsignore", head |-> head, body |-> body,
              term |-> term, follow |-> follow]
    /\ chunks \in Splits(head \o body \o term \o follow)

MaxIgnored == 2

\* CSI sequences up to the byte that enters CSIIgnore: ESC [ 1 ?, ESC [ < <,
\* ESC [ SP 1 and ESC [ 1 SP :.
CsiIgnoreHeads ==
  {<<ESC, 91, 49, 63>>, <<ESC, 91, 60, 60>>, <<ESC, 91, 32, 49>>,
   <<ESC, 91, 49, 32, 58>>}

\* ' ', '1', '?', LF, CR and DEL.
IgnoredAlphabet == {32, 49, 63, 10, 13, DEL}

\* An ignored CSI sequence, its final byte '@', 'm' or '~', and "A".
InitCsiIgnore ==
  \E head \in CsiIgnoreHeads, body \in Strings(IgnoredAlphabet, MaxIgnored),
     final \in {64, 109, 126} :
    /\ scn = [kind |-> "csiignore", head |-> head, body |-> body,
              final |-> final]
    /\ chunks \in Splits(head \o body \o <<final, 65>>)

\* Empty, "8" and "u".
OscFieldAlphabet == {<<>>, <<56>>, <<117>>}

\* Two or three fields, and runs of "A" up to and past the
\* MaxOSCParams boundaries.
OscFieldLists ==
  {fs \in Strings(OscFieldAlphabet, 3) : Len(fs) >= 2}
    \cup {Rep(<<65>>, n) : n \in MaxOSCParams..(MaxOSCParams + 2)}

\* ESC ] field ; field ; ... terminator.
InitOscFields ==
  \E fields \in OscFieldLists, term \in Terminators :
    /\ scn = [kind |-> "oscfields", fields |-> fields, term |-> term]
    /\ chunks \in Splits(<<ESC, 93>> \o Join(fields, 59) \o term)

\* First parameters of CSI J and CSI K: none, the defined modes, and
\* numbers past them, 256 and 258 among them.
ClearFields ==
  {<<>>, Digits(0), Digits(1), Digits(2), Digits(3), Digits(4), Digits(255),
   Digits(256), Digits(258), Digits(9999)}

\* CSI n J and CSI n K, alone or with a second parameter.
InitClear ==
  \E field \in ClearFields, more \in {<<>>, <<Digits(2)>>}, final \in {74, 75} :
    /\ scn = [kind |-> "clear", fields |-> <<field>> \o more, final |-> final]
    /\ chunks \in Splits(CsiBytes(scn.fields, final))

\* Bytes of an OSC payload: 'A', ';', ESC and '\'.
OscPayloadAlphabet == {65, 59, ESC, BSL}

MaxOscBody == 3

\* ESC ] 2 ; payload BEL 'B'.
InitOscPayload ==
  \E body \in Strings(OscPayloadAlphabet, MaxOscBody) :
    /\ scn = [kind |-> "oscpayload", body |-> body]
    /\ chunks \in Splits(<<ESC, 93, 50, 59>> \o body \o <<BEL, 66>>)

\* The starts of encoded code points of two, three and four bytes that a
\* call can end in.
PartialHeads ==
  UNION {{Take(Encode(cp), j) : j \in 1..(Len(Encode(cp)) - 1)} :
           cp \in {233, 20320, 127757}}

\* NUL, LF, CAN, ESC, US and DEL.
InterruptBytes == {0, 10, CAN, ESC, 31, DEL}

\* What follows the control byte: nothing, 'A', "[1m", continuation
\* bytes, the start of another code point, U+00E9, and a start byte
\* followed by 'A'.
InterruptTails ==
  {<<>>, <<65>>, <<91, 49, 109>>, <<160>>, <<189, 160>>, <<195>>,
   <<195, 169>>, <<195, 65>>}

\* A call that ends in a partial code point, perhaps an empty call, and a
\* call that starts with a control byte.
InitInterrupt ==
  \E pre \in {<<>>, <<65>>}, head \in PartialHeads, b \in InterruptBytes,
     tail \in InterruptTails, gap \in {<<>>, <<<<>>>>} :
    /\ scn = [kind |-> "interrupt", pre |-> pre, head |-> head,
              rest |-> <<b>> \o tail]
    /\ chunks = <<pre \o head>> \o gap \o <<scn.rest>>

\* The introducers of a DCS passthrough and of SOS, PM and APC strings.
StringHeads == {<<ESC, 80, 113>>, <<ESC, 88>>, <<ESC, 94>>, <<ESC, 95>>}

\* A string with a body of 'A', ESC or a start byte, ended by ESC \, CAN
\* or BEL, and 'A' after it.
InitStrings ==
  \E head \in StringHeads, body \in {<<65>>, <<ESC>>, <<195>>},
     term \in {ST, <<CAN>>, <<BEL>>} :
    /\ scn = [kind |-> "strings", head |-> head, body |-> body, term |-> term]
    /\ chunks \in Splits(head \o body \o term \o <<65>>)

InitHand ==
  /\ Fresh
  /\ hasOutput = FALSE
  /\ \/ InitTitle
     \/ InitMode
     \/ InitDefault
     \/ InitClamp
     \/ InitOrder
     \/ InitRecover
     \/ InitDcsIgnore
     \/ InitCsiIgnore
     \/ InitOscFields
     \/ InitClear
     \/ InitOscPayload
     \/ InitInterrupt
     \/ InitStrings

NextHand == AdvanceCall

SpecHand == InitHand /\ [][NextHand]_vars

\* C22: the OSC numbers 0, 1 and 2 each give the Handler SetTitle of the
\* second field and nothing else, any other number gives it no call, and
\* BEL and ESC \ as terminator give the same.
OscTitleDispatch ==
  (k = Len(chunks) /\ scn.kind = "title") =>
    hand = IF Val(scn.num) \in {0, 1, 2}
           THEN <<[op |-> "SetTitle", title |-> scn.title]>>
           ELSE <<>>

\* The main parameter of a field: the number before its first ':'.
MainOf(field) ==
  LET colons == {i \in 1..Len(field) : field[i] = 58}
  IN IF colons = {} THEN Val(field)
     ELSE Val(Take(field, (CHOOSE i \in colons : \A j \in colons : i <= j) - 1))

\* The calls stated for one mode sequence: one per main parameter, in
\* order, the tag raised by 0x200 under the marker '?'.
ModeCalls(s) ==
  [i \in 1..Len(Delivered(s.fields)) |->
     [op |-> IF s.final = 104 THEN "SetMode" ELSE "ResetMode",
      mode |-> MainOf(s.fields[i]) + (IF s.marker = <<63>> THEN 512 ELSE 0)]]

\* C23: CSI ... h and CSI ... l give the Handler exactly one SetMode, or
\* ResetMode, per main parameter n, in parameter order, with tag n + 0x200
\* when the first intermediate is '?' and tag n otherwise.
ModeSetReset ==
  (k = Len(chunks) /\ scn.kind = "mode") =>
    hand = Concat([i \in 1..Len(scn.seqs) |-> ModeCalls(scn.seqs[i])])

\* The case of C23: CSI ? 25 l and then CSI ? 2004 h, which give
\* ResetMode(ShowCursor) and SetMode(BracketedPaste).
ModeSetResetWitness ==
  /\ k = Len(chunks)
  /\ scn.kind = "mode"
  /\ Concat(chunks) = <<ESC, 91, 63, 50, 53, 108, ESC, 91, 63, 50, 48, 48, 52, 104>>
  /\ Len(chunks[1]) = 3
  /\ hand = <<[op |-> "ResetMode", mode |-> 512 + 25],
              [op |-> "SetMode", mode |-> 512 + 2004]>>

\* The i-th argument of a field list: the default for a field that is
\* missing, empty or zero, the number otherwise.
Argument(fields, i, default) ==
  IF i > Len(fields) \/ Val(fields[i]) = 0 THEN default ELSE Val(fields[i])

\* C24: an argument that is omitted or zero takes its default when the
\* default is not zero, and a number that is present and not zero is passed
\* as it is: counts, columns and rows default to 1, so that CSI H, CSI ; ; H
\* and CSI 0 ; 0 H give Goto(1, 1).
ParamDefaults ==
  (k = Len(chunks) /\ scn.kind = "default") =>
    /\ Len(hand) = 1
    /\ scn.final \in DOMAIN CountMethods =>
         hand[1] = HN(CountMethods[scn.final], Argument(scn.fields, 1, 1))
    /\ scn.final \in {72, 102} =>
         hand[1] = [op |-> "Goto", row |-> Argument(scn.fields, 1, 1),
                    col |-> Argument(scn.fields, 2, 1)]
    /\ scn.final = 114 =>
         /\ hand[1].op = "SetScrollingRegion"
         /\ hand[1].top = Argument(scn.fields, 1, 1)
         /\ Argument(scn.fields, 2, 0) # 0 =>
              hand[1].bottom = Argument(scn.fields, 2, 0)

\* The case of C24: CSI ; ; H, passed as ESC [ ; and ; H, gives Goto(1, 1).
ParamDefaultsWitness ==
  /\ k = Len(chunks)
  /\ scn.kind = "default"
  /\ chunks = <<<<ESC, 91, 59>>, <<59, 72>>>>
  /\ hand = <<[op |-> "Goto", row |-> 1, col |-> 1]>>

\* The colour a form denotes, each component brought down to 255.
ClampedColour(form) ==
  IF form[1] = 2
  THEN RgbColor(Min(form[2], 255), Min(form[3], 255), Min(form[4], 255))
  ELSE IndexedColor(Min(form[2], 255))

\* C25: every RGB channel and every palette index an SGR extended colour
\* gives the Handler is the smaller of the parameter and 255: a component
\* above 255 is delivered as 255, never modulo 256.
ColourClamping ==
  (k = Len(chunks) /\ scn.kind = "clamp") =>
    hand = <<[op |-> IF scn.target = 38 THEN "SetForeground" ELSE "SetBackground",
              color |-> ClampedColour(scn.form)]>>

\* The case of C25: CSI 38 : 2 : 256 : 9999 : 0 m gives Rgb(255, 255, 0).
ColourClampingWitness ==
  /\ k = Len(chunks)
  /\ scn.kind = "clamp"
  /\ scn.form = <<2, 256, ParamCap, 0>>
  /\ Len(chunks[1]) > 2 /\ Len(chunks[2]) > 0
  /\ hand = <<[op |-> "SetForeground", color |-> RgbColor(255, 255, 0)]>>

\* Input of each character of a text.
Inputs(text) == [i \in 1..Len(text) |-> [op |-> "Input", c |-> text[i]]]

\* The calls stated for T1, CSI 31 m, T2, CSI 0 m; Red is 1.
OrderCalls(t1, t2) ==
  Inputs(t1) \o <<[op |-> "SetForeground", color |-> NamedColor(1)]>>
    \o Inputs(t2) \o <<H0("ResetAttributes"), H0("ResetColors")>>

\* How many of them the first j bytes complete: one per character, one at
\* the 'm' of CSI 31 m, two at the 'm' of CSI 0 m.
OrderDone(t1, t2, j) ==
  LET first == Len(t1) + 5
      second == first + Len(t2) + 4
  IN Min(j, Len(t1)) + (IF j >= first THEN 1 ELSE 0)
       + (IF j > first THEN Min(j - first, Len(t2)) ELSE 0)
       + (IF j >= second THEN 2 ELSE 0)

\* C26: with the gate off the Handler calls come in the byte order of the
\* input, each at the byte that completes it: T1, CSI 31 m, T2, CSI 0 m
\* gives Input per character of T1, SetForeground(Red), Input per
\* character of T2, ResetAttributes, ResetColors, and after each Advance
\* call the Handler has exactly those the bytes passed so far complete.
HandlerOrdering ==
  scn.kind = "order" =>
    hand = Take(OrderCalls(scn.t1, scn.t2),
                OrderDone(scn.t1, scn.t2, Len(Concat(Take(chunks, k)))))

\* The case of C26: the first call ends inside CSI 31 m, after T1 was
\* delivered, and the second call delivers the rest.
HandlerOrderingWitness ==
  /\ k = 2
  /\ scn.kind = "order"
  /\ Len(scn.t1) = MaxText /\ Len(scn.t2) = MaxText
  /\ Len(chunks[1]) = MaxText + 2
  /\ marks[1].hand = MaxText
  /\ Len(hand) = 2 * MaxText + 3
  /\ hand = OrderCalls(scn.t1, scn.t2)

\* C30: an ESC inside an unfinished ESC or CSI sequence abandons it and
\* starts a new sequence: the Performer gets the calls of the new sequence
\* and no other, so that ESC [ 3 ESC [ 1 m makes one CsiDispatch, with
\* params [[1]] and final 'm', and no Print.
EscRestartsSequence ==
  (k = Len(chunks) /\ scn.kind = "recover") =>
    /\ perf = OneShot(scn.next)
    /\ scn.next = <<ESC, 91, 49, 109>> =>
         /\ Len(perf) = 1
         /\ perf[1].op = "CsiDispatch"
         /\ perf[1].params = <<<<1>>>>
         /\ perf[1].action = 109

\* C31: a DCS sequence that has entered DCSIgnore ends at ESC \ as at CAN
\* or SUB: the parser is then in Ground, what follows is parsed as it is
\* by a new parser, and the ignored sequence makes no Performer call.
DcsIgnoreEnds ==
  (k = Len(chunks) /\ scn.kind = "dcsignore") =>
    /\ pr.parser.state = "Ground"
    /\ perf = OneShot(scn.follow)

\* The Execute calls of the C0 bytes of a byte string, in order.
RECURSIVE Executes(_)
Executes(bs) ==
  IF Len(bs) = 0 THEN <<>>
  ELSE IF Head(bs) < 32 THEN <<ExecuteCall(Head(bs))>> \o Executes(Tail(bs))
  ELSE Executes(Tail(bs))

\* C38: a CSI sequence that enters CSIIgnore makes no CsiDispatch: the
\* bytes 0x20-0x3F that follow make no call, C0 bytes are executed, and the
\* first byte 0x40-0x7E brings the parser back to Ground, where the text
\* after it is printed.
CsiIgnoreSilent ==
  (k = Len(chunks) /\ scn.kind = "csiignore") =>
    /\ perf = Executes(scn.body) \o <<PrintCall(65)>>
    /\ pr.parser.state = "Ground"

\* The case of C38: ESC [ 1 ? LF 1 m A, the first call ending in
\* CSIIgnore, makes Execute(LF) and Print('A').
CsiIgnoreSilentWitness ==
  /\ k = Len(chunks)
  /\ scn.kind = "csiignore"
  /\ chunks = <<<<ESC, 91, 49, 63, 10>>, <<49, 109, 65>>>>
  /\ perf = <<ExecuteCall(10), PrintCall(65)>>

\* The fields stated for a body: one per ';'-separated field, the
\* semicolons past the MaxOSCParams-th kept in the last one.
OscStated(fields) ==
  IF Len(fields) <= MaxOSCParams + 1 THEN fields
  ELSE Append(Take(fields, MaxOSCParams), Join(Tail0(fields, MaxOSCParams), 59))

\* C32: OscDispatch carries one byte string per ';'-separated field of
\* the body, in order, empty fields included (8;;u gives ["8", "", "u"]);
\* only the semicolons past the 16th boundary are bytes of the last field.
OscFieldsDelivered ==
  (k = Len(chunks) /\ scn.kind = "oscfields") =>
    perf = <<OscCall(OscStated(scn.fields), scn.term = <<BEL>>)>>


\* C35: ClearScreen and ClearLine are only called with a mode equal to
\* the first parameter of CSI n J and CSI n K: a parameter past the
\* defined modes, 256 or 258 say, never gives a call with a defined mode.
ClearModeIsParameter ==
  (k = Len(chunks) /\ scn.kind = "clear") =>
    \A i \in 1..Len(hand) : hand[i].mode = Val(scn.fields[1])

\* C37: SetMode and ResetMode get a private tag, 0x200 or more, exactly
\* when the first intermediate of the sequence is '?': CSI 537 h without
\* the marker gives no private tag.
PrivateTagIffMarked ==
  (k = Len(chunks) /\ scn.kind = "mode" /\ Len(scn.seqs) = 1) =>
    \A i \in 1..Len(hand) :
      (hand[i].mode >= 512) <=> (scn.seqs[1].marker = <<63>>)

\* The positions of a payload where '\' comes right after ESC.
StAt(body) == {i \in 2..Len(body) : body[i] = BSL /\ body[i - 1] = ESC}

\* The bytes of a payload that are not ';'.
RECURSIVE NoSemicolons(_)
NoSemicolons(s) ==
  IF s = <<>> THEN <<>>
  ELSE (IF Head(s) = 59 THEN <<>> ELSE <<Head(s)>>) \o NoSemicolons(Tail(s))

\* C36: in OSCString a '\' ends the string only right after ESC, any
\* other '\' is payload, and an ESC not followed by '\' stays in the
\* payload. The string ESC ] 2 ; body BEL ends at the first ESC \ of the
\* body with the bytes before it as payload, or at BEL with the whole body.
OscBackslashTerminates ==
  (k = Len(chunks) /\ scn.kind = "oscpayload") =>
    LET body == scn.body
        st == StAt(body)
        first == CHOOSE i \in st : \A j \in st : i <= j
    IN /\ Len(perf) >= 1
       /\ perf[1].op = "OscDispatch"
       /\ perf[1].bellTerminated = (st = {})
       /\ Concat(perf[1].params) =
            <<50>> \o NoSemicolons(IF st = {} THEN body ELSE Take(body, first - 2))


\* C39: a control byte that arrives while a partial code point is pending
\* from the previous Advance call gives exactly one Print(U+FFFD) for the
\* partial, and the control byte and the bytes after it are processed as
\* if no partial had been pending.
PartialInterrupted ==
  (k = Len(chunks) /\ scn.kind = "interrupt") =>
    /\ perf = OneShot(scn.pre) \o <<PrintCall(RuneError)>> \o OneShot(scn.rest)
    /\ hand = OneShotHand(scn.pre) \o <<[op |-> "Input", c |-> RuneError]>>
                 \o OneShotHand(scn.rest)

\* The case of C39: the first two bytes of U+4F60, then ESC [ 1 m in the
\* next call: Print(U+FFFD) and then the CSI dispatch, the partial gone.
PartialInterruptedWitness ==
  /\ k = Len(chunks)
  /\ scn.kind = "interrupt"
  /\ chunks = <<<<65, 228, 189>>, <<ESC, 91, 49, 109>>>>
  /\ Len(perf) = 3
  /\ perf[1] = PrintCall(65)
  /\ perf[2] = PrintCall(RuneError)
  /\ perf[3].op = "CsiDispatch"
  /\ pr.parser.partialUTF8 = <<>>
  /\ pr.parser.state = "Ground"


\* The loop state when the loop of Parser.Advance is entered: past the
\* bytes that completed a pending partial code point, if any.
Entered(m, bytes) ==
  IF Len(m.partialUTF8) > 0
  THEN LET r == advancePartialUTF8(m, bytes) IN [m |-> r.m, i |-> r.n]
  ELSE [m |-> m, i |-> 0]

\* C40: Parser.Advance terminates: in every parser state, Ground with
\* UTF-8 decoding and a pending partial code point included, each
\* iteration of the loop moves the cursor forward by one byte at least,
\* and after Len(bytes) iterations at most the cursor is at the end.
EveryIterationConsumes ==
  k < Len(chunks) =>
    LET bytes == chunks[k + 1]
        m == pr.parser
    IN /\ \A n \in 0..Len(bytes) :
            LET ls == iterate(Entered(m, bytes), bytes, n)
            IN /\ ls.i <= Len(bytes)
               /\ ls.i < Len(bytes) => loopBody(ls, bytes).i > ls.i
       /\ advanceRun(m, bytes).i = Len(bytes)

\* The case of C40: a call that finds a partial code point pending and
\* starts with ESC: the partial takes no byte, and the loop then takes
\* ESC [ 1 m in four iterations, one byte each.
EveryIterationConsumesWitness ==
  /\ k = 1
  /\ scn.kind = "interrupt"
  /\ pr.parser.partialUTF8 = <<228, 189>>
  /\ chunks[2] = <<ESC, 91, 49, 109>>
  /\ Entered(pr.parser, chunks[2]).i = 0
  /\ \A n \in 0..4 : iterate(Entered(pr.parser, chunks[2]), chunks[2], n).i = n
  /\ advanceRun(pr.parser, chunks[2]).m.state = "Ground"

====
